---- MODULE Spec2Model ----
(***************************************************************************)
(* State-synchronisation engine of the Home Assistant bridge:              *)
(*   - DataManager (func-calling/src/data-manager/data-manager.ts): the    *)
(*     synchronizer that buffers the four registry events, rebuilds the    *)
(*     domain model and applies change events;                             *)
(*   - HomeAssistantWebSocketClient (hass-ws-client/client.ts): the        *)
(*     protocol client (connect, handshake, refresh timer, close).         *)
(*                                                                         *)
(* Encoding of JavaScript values                                           *)
(*   null / undefined of a string-valued field : the string Null           *)
(*   a missing field of an entity state        : Undefined (s), NoAttrs (a)*)
(*   number | null | "unavailable"             : tagged records Num(n),    *)
(*                                               NullV, UnavailableV       *)
(*   entity id "light.desk"                    : the pair <<"light","desk">>*)
(*   a nullable buffer                         : [held, v]                 *)
(*   Record<string, T> (insertion ordered)     : a sequence of             *)
(*                                               [entity_id, st] entries   *)
(***************************************************************************)
EXTENDS Integers, Sequences, FiniteSets, TLC

VARIABLES
    data,           \* DataManager.data (the Domain Model): [areas |-> Seq(Area)]
    incomingData,   \* DataManager.incomingData: the four registry buffers
    last,           \* outcome of the last DataManager handler: event kind, thrown error, rebuild run
    rebuildRuns,    \* number of times the body of syncData's if has been entered
    rebuildsDone,   \* number of rebuilds that ran to the end of syncData
    changeEvents,   \* number of entity_state_change events handled
    cycleArrived,   \* registry kinds handled since the buffers were last all empty
    cycleRebuilds,  \* rebuild runs since the buffers were last all empty
    socket,         \* client.socket: [ref |-> this.socket is set, readyState |-> of the
                    \* transport, sendAfterCloseThrows |-> its send() throws once closed]
    runningId,      \* client.runningId
    ids,            \* client.ids, the correlation table
    refetchInterval,\* client.refetchInterval: [set |-> field is non-null, armed |-> not cleared]
    sent,           \* the frames written to the open transport, oldest first
    hub,            \* the hub's side of the handshake on the current transport
    ticks,          \* number of refresh-timer callbacks run
    calls,          \* number of command-helper calls made on the client
    frames,         \* number of result and event frames handed to the DataManager's client
    clientLast      \* outcome of the last client operation: op, thrown error, event emitted

dmVars == <<data, incomingData, last, rebuildRuns, rebuildsDone, changeEvents, cycleArrived,
           cycleRebuilds>>
clientVars == <<socket, runningId, ids, refetchInterval, sent, hub, ticks, calls, frames,
               clientLast>>
vars == <<data, incomingData, last, rebuildRuns, rebuildsDone, changeEvents, cycleArrived,
          cycleRebuilds,
          socket, runningId, ids, refetchInterval, sent, hub, ticks, calls, frames,
          clientLast>>

---------------------------------------------------------------------------
(* Bounds of the model *)

MaxRebuilds == 2        \* rebuild runs explored per behaviour
MaxChanges == 2         \* change events explored per behaviour
MaxTicks == 2           \* refresh-timer ticks explored per behaviour
MaxCalls == 1           \* command-helper calls explored per behaviour
MaxCommands == 2        \* DataManager commands explored per behaviour
MaxFrames == 4          \* frames the hub sends to a DataManager's client per behaviour
MaxTemperature == 60     \* temperatures explored: -MaxTemperature..MaxTemperature
IdsBelowMax == 3        \* how far below its upper bound a late client's counter starts

---------------------------------------------------------------------------
(* JavaScript values *)

Null == "null"
Undefined == "undefined"
NoError == "none"

Num(n) == [t |-> "number", n |-> n]
NullV == [t |-> "null"]
UndefinedV == [t |-> "undefined"]
UnavailableV == [t |-> "unavailable"]
Str(s) == [t |-> "string", s |-> s]
Arr(v) == [t |-> "array", v |-> v]

NoAttrs == [present |-> FALSE]
Attrs(b, c, u) == [present |-> TRUE, brightness |-> b, rgb_color |-> c, unit_of_measurement |-> u]

\* an entity state as it travels on the wire: s and a may each be missing in a patch
EntityState(s, a) == [s |-> s, a |-> a]

Kinds == {"areas", "devices", "entities", "entity_states"}

---------------------------------------------------------------------------
(* data.ts: derivation helpers *)

EntityTypes == [light |-> "light"]

\* entityId.startsWith(`${EntityTypes.light}.`)
IsLightEntityId(entityId) == entityId[1] = EntityTypes.light

\* a mutant of getLightState: whatever is not "on" is "off"
getLightStateDefaultingToOff(state) == IF state = "on" THEN "on" ELSE "off"

getLightState(state) ==
    IF state = "on" THEN "on" ELSE IF state = "off" THEN "off" ELSE "unavailable"

\* Number.parseInt(text, 10) / Number.parseFloat(text) on the numerals the model uses;
\* any other text is NaN (UndefinedV)
ParseNumber(text) ==
    CASE text = "0" -> Num(0)
      [] text = "20" -> Num(20)
      [] text = "68" -> Num(68)
      [] text = "128" -> Num(128)
      [] text = "255" -> Num(255)
      [] text = "400" -> Num(400)
      [] text = "1000" -> Num(1000)
      [] text = "1001" -> Num(1001)
      [] OTHER -> UndefinedV

maxBrightness == 255

\* Math.round(x / y) for x >= 0, y > 0: halves round up
RoundDiv(x, y) == (2 * x + y) \div (2 * y)

getBrightnessPercentage(brightness) ==
    IF brightness.t = "string"
    THEN LET brightnessValue == ParseNumber(brightness.s)
         IN IF brightnessValue.t /= "number" THEN NullV
            ELSE Num(RoundDiv(brightnessValue.n * 100, maxBrightness))
    ELSE IF brightness.t = "number"
    THEN Num(RoundDiv(brightness.n * 100, maxBrightness))
    ELSE NullV

\* the percentages a caller passes: 0..fullPercentage
fullPercentage == 100

\* a mutant of getBrightnessValue: the percentage is scaled to 256 steps
getBrightnessValueOutOf256(brightnessPercentage) ==
    IF brightnessPercentage.t = "null" THEN 0
    ELSE RoundDiv(brightnessPercentage.n * (maxBrightness + 1), fullPercentage)

getBrightnessValue(brightnessPercentage) ==
    IF brightnessPercentage.t = "null" THEN 0
    ELSE RoundDiv(brightnessPercentage.n * maxBrightness, fullPercentage)

getRBGColor(rgbColor) ==
    IF rgbColor.t = "array" THEN rgbColor ELSE NullV

getNumericSensorState(state) ==
    IF state = Undefined THEN UnavailableV
    ELSE LET value == ParseNumber(state)
         IN IF value.t = "number" THEN value ELSE UnavailableV

TEMPERATURE_UNIT_OF_MEASUREMENTS == [celsius |-> "C", fahrenheit |-> "F"]

isTemperatureUnitOfMeasurement(unitOfMeasurement) ==
    \/ unitOfMeasurement = TEMPERATURE_UNIT_OF_MEASUREMENTS.celsius
    \/ unitOfMeasurement = TEMPERATURE_UNIT_OF_MEASUREMENTS.fahrenheit

getTemperatureUnitOfMeasurement(unitOfMeasurement) ==
    IF isTemperatureUnitOfMeasurement(unitOfMeasurement) THEN unitOfMeasurement ELSE Null

\* a mutant of calcTemperatureValue: equal units are converted too
calcTemperatureValueAlwaysConverting(value, unitOfMeasurement, targetUnitOfMeasurement) ==
    IF value.t = "unavailable" THEN value
    ELSE IF targetUnitOfMeasurement = TEMPERATURE_UNIT_OF_MEASUREMENTS.fahrenheit
    THEN Num((18 * value.n + 325) \div 10)
    ELSE Num((10 * value.n - 311) \div 18)

\* Math.round(value * 1.8 + 32) = floor((18 value + 325) / 10);
\* Math.round((value - 32) / 1.8) = floor((10 value - 311) / 18)
calcTemperatureValue(value, unitOfMeasurement, targetUnitOfMeasurement) ==
    IF value.t = "unavailable" \/ unitOfMeasurement = targetUnitOfMeasurement
    THEN value
    ELSE IF targetUnitOfMeasurement = TEMPERATURE_UNIT_OF_MEASUREMENTS.fahrenheit
    THEN Num((18 * value.n + 325) \div 10)
    ELSE Num((10 * value.n - 311) \div 18)

---------------------------------------------------------------------------
(* config.ts of func-calling: the static per-area dashboard table *)

NoEntity == <<"", "">>

DashboardConfig(areaId, unit, temperature, humidity, carbonDioxide) ==
    [areaId |-> areaId, temperatureUnitOfMeasurement |-> unit,
     temperatureSensorEntityId |-> temperature, humiditySensorEntityId |-> humidity,
     carbonDioxideSensorEntityId |-> carbonDioxide]

dashboardConfigs ==
    << DashboardConfig("living_room", "C",
                       <<"sensor", "aranet4_23eff_temperature">>,
                       <<"sensor", "aranet4_23eff_humidity">>,
                       <<"sensor", "aranet4_23eff_carbon_dioxide">>),
       DashboardConfig("kitchen", "C", NoEntity, NoEntity, NoEntity),
       DashboardConfig("bedroom", "C", NoEntity, NoEntity, NoEntity),
       DashboardConfig("office", "C",
                       <<"sensor", "aranet4_23f66_temperature">>,
                       <<"sensor", "aranet4_23f66_humidity">>,
                       <<"sensor", "aranet4_23f66_carbon_dioxide">>) >>

---------------------------------------------------------------------------
(* DataManager: state and lookups *)

NullBuffer == [held |-> FALSE, v |-> <<>>]
Held(v) == [held |-> TRUE, v |-> v]

EmptyIncomingData ==
    [areas |-> NullBuffer, devices |-> NullBuffer, entities |-> NullBuffer,
     entityStates |-> NullBuffer]

\* the truthiness test at the head of syncData
AllHeld(inc) ==
    inc.areas.held /\ inc.devices.held /\ inc.entities.held /\ inc.entityStates.held

NoneHeld(inc) ==
    ~inc.areas.held /\ ~inc.devices.held /\ ~inc.entities.held /\ ~inc.entityStates.held

\* Array.prototype.find / findIndex: the first position whose element satisfies P, 0 if none
FirstIndex(seq, P(_)) ==
    IF \E i \in 1..Len(seq) : P(seq[i])
    THEN CHOOSE i \in 1..Len(seq) : P(seq[i]) /\ \A j \in 1..(i - 1) : ~P(seq[j])
    ELSE 0

AreaIndex(areas, areaId) == LET Is(a) == a.id = areaId IN FirstIndex(areas, Is)
LightIndex(lights, entityId) == LET Is(l) == l.entityId = entityId IN FirstIndex(lights, Is)
StateIndex(entityStates, entityId) ==
    LET Is(e) == e.entity_id = entityId IN FirstIndex(entityStates, Is)

\* entityStates[entityId] = st: an existing key keeps its position, a new key goes last
SetState(entityStates, entityId, st) ==
    LET i == StateIndex(entityStates, entityId)
    IN IF i = 0 THEN Append(entityStates, [entity_id |-> entityId, st |-> st])
       ELSE [entityStates EXCEPT ![i].st = st]

getStateEntityDeviceForEntityId(entityId, devices, entities, entityStates) ==
    LET state == entityStates[StateIndex(entityStates, entityId)].st
        IsEntity(e) == e.entity_id = entityId
        ei == FirstIndex(entities, IsEntity)
    IN IF ei = 0
       THEN [err |-> "Entity not found", state |-> state]
       ELSE LET entity == entities[ei]
                IsDevice(d) == d.id = entity.device_id
                di == FirstIndex(devices, IsDevice)
            IN IF di = 0
               THEN [err |-> "Device not found", state |-> state]
               ELSE [err |-> NoError, state |-> state, entity |-> entity,
                     device |-> devices[di]]

---------------------------------------------------------------------------
(* DataManager: the rebuild *)

NewArea ==
    [id |-> Null, name |-> Null, floorId |-> Null, lights |-> <<>>,
     carbonDioxideSensor |-> NullV, humiditySensor |-> NullV, temperatureSensor |-> NullV]

\* a mutant of updateAreas: every area starts afresh, the stale area is not spread in
updateAreasFromScratch(staleAreas, areas) ==
    [i \in 1..Len(areas) |->
        [NewArea EXCEPT !.id = areas[i].area_id, !.name = areas[i].name,
                        !.floorId = areas[i].floor_id]]

\* a mutant of updateAreas: the areas the snapshot lacks stay at the end of the list
updateAreasKeepingStale(staleAreas, areas) ==
    LET Gone(stale) == \A i \in 1..Len(areas) : areas[i].area_id /= stale.id
    IN [i \in 1..Len(areas) |->
           LET si == AreaIndex(staleAreas, areas[i].area_id)
               merged == IF si = 0 THEN NewArea ELSE staleAreas[si]
           IN [merged EXCEPT !.id = areas[i].area_id, !.name = areas[i].name,
                             !.floorId = areas[i].floor_id]]
       \o SelectSeq(staleAreas, Gone)

updateAreas(staleAreas, areas) ==
    [i \in 1..Len(areas) |->
        LET area == areas[i]
            si == AreaIndex(staleAreas, area.area_id)
            merged == IF si = 0 THEN NewArea ELSE staleAreas[si]
        IN [merged EXCEPT !.id = area.area_id, !.name = area.name,
                          !.floorId = area.floor_id]]

NewLight(area, device, entityId, state) ==
    [areaId |-> area.id, areaName |-> area.name,
     deviceId |-> device.id, deviceName |-> device.name,
     entityId |-> entityId,
     state |-> getLightState(state.s),
     brightnessPercentage |-> getBrightnessPercentage(state.a.brightness),
     rgbColor |-> getRBGColor(state.a.rgb_color)]

\* a mutant of PlaceLight: the light is pushed even when the area already holds it
PlaceLightAlwaysPushing(lights, light) == Append(lights, light)

\* lines 203-210 of updateLights: replace the light in place, or push it
PlaceLight(lights, light) ==
    LET existingLightIndex == LightIndex(lights, light.entityId)
    IN IF existingLightIndex /= 0
       THEN [lights EXCEPT ![existingLightIndex] = light]
       ELSE Append(lights, light)

RECURSIVE updateLightsFrom(_, _, _, _, _)
updateLightsFrom(i, areas, devices, entities, entityStates) ==
    IF i > Len(entityStates) THEN [areas |-> areas, err |-> NoError]
    ELSE LET entityId == entityStates[i].entity_id
         IN IF ~IsLightEntityId(entityId)
            THEN updateLightsFrom(i + 1, areas, devices, entities, entityStates)
            ELSE LET r == getStateEntityDeviceForEntityId(entityId, devices, entities,
                                                          entityStates)
                 IN IF r.err /= NoError THEN [areas |-> areas, err |-> r.err]
                    ELSE LET ai == AreaIndex(areas, r.device.area_id)
                         IN IF ai = 0 THEN [areas |-> areas, err |-> "Area not found"]
                            ELSE IF ~r.state.a.present
                            THEN [areas |-> areas, err |-> "TypeError"]
                            ELSE updateLightsFrom(i + 1,
                                    [areas EXCEPT ![ai].lights =
                                        PlaceLight(@, NewLight(areas[ai], r.device,
                                                               entityId, r.state))],
                                    devices, entities, entityStates)

updateLights(areas, devices, entities, entityStates) ==
    updateLightsFrom(1, areas, devices, entities, entityStates)

NewSensor(area, device, entityId, state, unit) ==
    [areaId |-> area.id, areaName |-> area.name,
     deviceId |-> device.id, deviceName |-> device.name,
     entityId |-> entityId, state |-> state, unitOfMeasurement |-> unit]

SourceUnit(state, dashboard) ==
    LET reported == IF state.a.present
                    THEN getTemperatureUnitOfMeasurement(state.a.unit_of_measurement)
                    ELSE Null
    IN IF reported /= Null THEN reported ELSE dashboard.temperatureUnitOfMeasurement

RECURSIVE updateSensorsFrom(_, _, _, _, _, _)
updateSensorsFrom(i, j, areas, devices, entities, entityStates) ==
    IF i > Len(entityStates) THEN [areas |-> areas, err |-> NoError]
    ELSE IF j > Len(dashboardConfigs)
    THEN updateSensorsFrom(i + 1, 1, areas, devices, entities, entityStates)
    ELSE
      LET entityId == entityStates[i].entity_id
          dashboard == dashboardConfigs[j]
          ai == AreaIndex(areas, dashboard.areaId)
          r == getStateEntityDeviceForEntityId(entityId, devices, entities, entityStates)
          Continue(newAreas) ==
              updateSensorsFrom(i, j + 1, newAreas, devices, entities, entityStates)
      IN IF ai = 0 THEN [areas |-> areas, err |-> "Dashboard area not found"]
         ELSE IF entityId = dashboard.humiditySensorEntityId
         THEN IF r.err /= NoError THEN [areas |-> areas, err |-> r.err]
              ELSE Continue([areas EXCEPT ![ai].humiditySensor =
                      NewSensor(areas[ai], r.device, entityId,
                                getNumericSensorState(r.state.s), "%")])
         ELSE IF entityId = dashboard.temperatureSensorEntityId
         THEN IF r.err /= NoError THEN [areas |-> areas, err |-> r.err]
              ELSE LET unitOfMeasurement == SourceUnit(r.state, dashboard)
                       temperatureValue ==
                           calcTemperatureValue(getNumericSensorState(r.state.s),
                                                unitOfMeasurement,
                                                dashboard.temperatureUnitOfMeasurement)
                   IN Continue([areas EXCEPT ![ai].temperatureSensor =
                          NewSensor(areas[ai], r.device, entityId, temperatureValue,
                                    unitOfMeasurement)])
         ELSE IF entityId = dashboard.carbonDioxideSensorEntityId
         THEN IF r.err /= NoError THEN [areas |-> areas, err |-> r.err]
              ELSE Continue([areas EXCEPT ![ai].carbonDioxideSensor =
                      NewSensor(areas[ai], r.device, entityId,
                                getNumericSensorState(r.state.s), "ppm")])
         ELSE Continue(areas)

updateSensors(areas, devices, entities, entityStates) ==
    updateSensorsFrom(1, 1, areas, devices, entities, entityStates)

\* a mutant of syncData's guard: the entity-states buffer is not tested
SyncReadyIgnoringStates(inc) ==
    inc.areas.held /\ inc.devices.held /\ inc.entities.held

\* the condition of syncData's if
SyncReady(inc) == AllHeld(inc)

\* the body of syncData's if on the model `areas` with the buffers `inc`: the three update
\* steps in order; a throw leaves what the earlier statements wrote and skips the rest,
\* the clearing of the buffers included
\* line 148: updateSensors runs when updateLights, with outcome r, has not thrown
ThenUpdateSensors(r, inc) ==
    IF r.err = NoError
    THEN updateSensors(r.areas, inc.devices.v, inc.entities.v, inc.entityStates.v)
    ELSE r

\* lines 150-154: the buffers are cleared when the update steps, with outcome r, have
\* not thrown
ThenClearBuffers(r, inc) ==
    [areas |-> r.areas, err |-> r.err, rebuilt |-> TRUE,
     incomingData |-> IF r.err = NoError THEN EmptyIncomingData ELSE inc]

Rebuild(areas, inc) ==
    ThenClearBuffers(
        ThenUpdateSensors(
            updateLights(updateAreas(areas, inc.areas.v),
                         inc.devices.v, inc.entities.v, inc.entityStates.v),
            inc),
        inc)

\* syncData as a whole: [areas, incomingData, err, rebuilt]
syncData(areas, inc) ==
    IF SyncReady(inc)
    THEN Rebuild(areas, inc)
    ELSE [areas |-> areas, incomingData |-> inc, err |-> NoError, rebuilt |-> FALSE]

---------------------------------------------------------------------------
(* DataManager: change events *)

\* a mutant of MergeState: the patch replaces the buffered entry
MergeStateReplacing(currentState, change) == change

\* { ...currentState, ...change["+"] }: a top-level field of the patch replaces the
\* buffered one, a field the patch lacks keeps the buffered value
MergeState(currentState, change) ==
    [s |-> IF change.s /= Undefined THEN change.s ELSE currentState.s,
     a |-> IF change.a.present THEN change.a ELSE currentState.a]

\* lines 85-92 of start: the change event while a states buffer is held
RECURSIVE mergeChangesFrom(_, _, _)
mergeChangesFrom(i, entityStates, changes) ==
    IF i > Len(changes) THEN entityStates
    ELSE LET entityId == changes[i].entity_id
             si == StateIndex(entityStates, entityId)
             currentState == IF si = 0 THEN EntityState(Undefined, NoAttrs)
                             ELSE entityStates[si].st
         IN mergeChangesFrom(i + 1,
                SetState(entityStates, entityId, MergeState(currentState, changes[i].st)),
                changes)

PatchedLight(light, entityState) ==
    IF entityState.a.present
    THEN [light EXCEPT !.state = getLightState(entityState.s),
                       !.brightnessPercentage =
                           getBrightnessPercentage(entityState.a.brightness),
                       !.rgbColor = getRBGColor(entityState.a.rgb_color)]
    ELSE [light EXCEPT !.state = getLightState(entityState.s)]

\* a mutant of updateLightState: the light is found but its state is not written
updateLightStateKeepingState(areas, entityId, entityState) ==
    LET Has(a) == LightIndex(a.lights, entityId) /= 0
        ai == FirstIndex(areas, Has)
    IN [areas |-> areas, areaId |-> IF ai = 0 THEN Null ELSE areas[ai].id]

\* the first area, in model order, that holds the light; its first such light is patched
updateLightState(areas, entityId, entityState) ==
    LET Has(a) == LightIndex(a.lights, entityId) /= 0
        ai == FirstIndex(areas, Has)
    IN IF ai = 0 THEN [areas |-> areas, areaId |-> Null]
       ELSE LET li == LightIndex(areas[ai].lights, entityId)
            IN [areas |-> [areas EXCEPT ![ai].lights[li] =
                              PatchedLight(areas[ai].lights[li], entityState)],
                areaId |-> areas[ai].id]

\* a mutant of updateCarbonDioxideSensor: a missing sensor record is thrown, not logged
updateCarbonDioxideSensorThrowing(areas, areaId, state) ==
    LET ai == AreaIndex(areas, areaId)
    IN IF ai = 0 THEN [areas |-> areas, err |-> "Area not found"]
       ELSE IF areas[ai].carbonDioxideSensor = NullV
       THEN [areas |-> areas, err |-> "Carbon Dioxide Sensor not found"]
       ELSE [areas |-> [areas EXCEPT ![ai].carbonDioxideSensor.state =
                           getNumericSensorState(state.s),
                        ![ai].carbonDioxideSensor.unitOfMeasurement = "ppm"],
             err |-> NoError]

updateCarbonDioxideSensor(areas, areaId, state) ==
    LET ai == AreaIndex(areas, areaId)
    IN IF ai = 0 THEN [areas |-> areas, err |-> "Area not found"]
       ELSE IF areas[ai].carbonDioxideSensor = NullV THEN [areas |-> areas, err |-> NoError]
       ELSE [areas |-> [areas EXCEPT ![ai].carbonDioxideSensor.state =
                           getNumericSensorState(state.s),
                        ![ai].carbonDioxideSensor.unitOfMeasurement = "ppm"],
             err |-> NoError]

updateHumiditySensor(areas, areaId, state) ==
    LET ai == AreaIndex(areas, areaId)
    IN IF ai = 0 THEN [areas |-> areas, err |-> "Area not found"]
       ELSE IF areas[ai].humiditySensor = NullV THEN [areas |-> areas, err |-> NoError]
       ELSE [areas |-> [areas EXCEPT ![ai].humiditySensor.state =
                           getNumericSensorState(state.s),
                        ![ai].humiditySensor.unitOfMeasurement = "%"],
             err |-> NoError]

updateTemperatureSensor(areas, areaId, state) ==
    LET IsDashboard(d) == d.areaId = areaId
        di == FirstIndex(dashboardConfigs, IsDashboard)
        ai == AreaIndex(areas, areaId)
    IN IF di = 0 THEN [areas |-> areas, err |-> "Dashboard not found"]
       ELSE IF ai = 0 THEN [areas |-> areas, err |-> "Area not found"]
       ELSE IF areas[ai].temperatureSensor = NullV THEN [areas |-> areas, err |-> NoError]
       ELSE LET dashboard == dashboardConfigs[di]
                unitOfMeasurement == SourceUnit(state, dashboard)
                temperatureValue ==
                    calcTemperatureValue(getNumericSensorState(state.s), unitOfMeasurement,
                                         dashboard.temperatureUnitOfMeasurement)
            IN [areas |-> [areas EXCEPT ![ai].temperatureSensor.state = temperatureValue,
                              ![ai].temperatureSensor.unitOfMeasurement = unitOfMeasurement],
                err |-> NoError]

\* lines 100-122 of start: one entity id of a change event against every dashboard
RECURSIVE applySensorChangeFrom(_, _, _, _)
applySensorChangeFrom(j, areas, entityId, state) ==
    IF j > Len(dashboardConfigs) THEN [areas |-> areas, err |-> NoError]
    ELSE LET dashboard == dashboardConfigs[j]
             r == IF entityId = dashboard.carbonDioxideSensorEntityId
                  THEN updateCarbonDioxideSensor(areas, dashboard.areaId, state)
                  ELSE IF entityId = dashboard.humiditySensorEntityId
                  THEN updateHumiditySensor(areas, dashboard.areaId, state)
                  ELSE IF entityId = dashboard.temperatureSensorEntityId
                  THEN updateTemperatureSensor(areas, dashboard.areaId, state)
                  ELSE [areas |-> areas, err |-> NoError]
         IN IF r.err /= NoError THEN r
            ELSE applySensorChangeFrom(j + 1, r.areas, entityId, state)

\* lines 94-123 of start: the change event while no states buffer is held
RECURSIVE applyChangesFrom(_, _, _)
applyChangesFrom(i, areas, changes) ==
    IF i > Len(changes) THEN [areas |-> areas, err |-> NoError]
    ELSE LET entityId == changes[i].entity_id
         IN IF IsLightEntityId(entityId)
            THEN applyChangesFrom(i + 1,
                    updateLightState(areas, entityId, changes[i].st).areas, changes)
            ELSE LET r == applySensorChangeFrom(1, areas, entityId, changes[i].st)
                 IN IF r.err /= NoError THEN r
                    ELSE applyChangesFrom(i + 1, r.areas, changes)

---------------------------------------------------------------------------
(* The hub's payloads explored *)

HassArea(area_id, floor_id, name) == [area_id |-> area_id, floor_id |-> floor_id, name |-> name]
HassDevice(id, area_id, name) == [id |-> id, area_id |-> area_id, name |-> name]
HassEntity(entity_id, device_id) == [entity_id |-> entity_id, device_id |-> device_id]
Entry(entity_id, st) == [entity_id |-> entity_id, st |-> st]

LightDesk == <<"light", "desk">>
LightLamp == <<"light", "lamp">>
OfficeCo2 == <<"sensor", "aranet4_23f66_carbon_dioxide">>

AreaLiving == HassArea("living_room", Null, "Living Room")
AreaKitchen == HassArea("kitchen", Null, "Kitchen")
AreaBedroom == HassArea("bedroom", Null, "Bedroom")
AreaOffice == HassArea("office", Null, "Office")
AreaStudy == HassArea("office", "upstairs", "Study")

AreasInputs ==
    { <<AreaOffice>>,
      <<AreaLiving, AreaKitchen, AreaBedroom, AreaOffice>> }

DeskInOffice == HassDevice("dev_desk", "office", "Desk Lamp")
DeskInKitchen == HassDevice("dev_desk", "kitchen", "Desk Lamp")
LampInOffice == HassDevice("dev_lamp", "office", "Floor Lamp")
Aranet == HassDevice("dev_aranet", "office", "Aranet4")

DevicesInputs ==
    { <<DeskInOffice>>,
      <<DeskInKitchen, LampInOffice, Aranet>> }

EntitiesInputs ==
    { <<HassEntity(LightDesk, "dev_desk")>>,
      <<HassEntity(LightDesk, "dev_desk"), HassEntity(LightLamp, "dev_lamp"),
        HassEntity(OfficeCo2, "dev_aranet")>> }

Red == Arr(<<255, 0, 0>>)

EntityStatesInputs ==
    { <<Entry(LightDesk, EntityState("on", Attrs(Num(128), Red, Undefined)))>>,
      <<Entry(LightDesk, EntityState("off", Attrs(NullV, NullV, Undefined))),
        Entry(LightLamp, EntityState("on", Attrs(Num(255), NullV, Undefined))),
        Entry(OfficeCo2, EntityState("1000", Attrs(UndefinedV, UndefinedV, "ppm")))>> }

ChangesInputs ==
    { <<Entry(LightDesk, EntityState("off", NoAttrs))>>,
      <<Entry(LightDesk, EntityState("on", Attrs(Num(255), UndefinedV, Undefined)))>>,
      <<Entry(OfficeCo2, EntityState("1001", NoAttrs)),
        Entry(LightLamp, EntityState("off", NoAttrs))>> }

---------------------------------------------------------------------------
(* DataManager: the event handlers registered by start() *)

NoOutcome == [op |-> "none", err |-> NoError, rebuilt |-> FALSE, quartet |-> EmptyIncomingData]

InitDataManager ==
    /\ data = [areas |-> <<>>]
    /\ incomingData = EmptyIncomingData
    /\ last = NoOutcome
    /\ rebuildRuns = 0
    /\ rebuildsDone = 0
    /\ changeEvents = 0
    /\ cycleArrived = {}
    /\ cycleRebuilds = 0

\* the state a registry handler leaves: r is the outcome of its syncData()
AfterSyncData(kind, stored, r) ==
    LET fresh == NoneHeld(incomingData)
        arrived == IF fresh THEN {} ELSE cycleArrived
        runs == IF fresh THEN 0 ELSE cycleRebuilds
    IN /\ r.rebuilt => rebuildRuns < MaxRebuilds
       /\ data' = [data EXCEPT !.areas = r.areas]
       /\ incomingData' = r.incomingData
       /\ last' = [op |-> kind, err |-> r.err, rebuilt |-> r.rebuilt,
                   quartet |-> IF r.rebuilt THEN stored ELSE EmptyIncomingData]
       /\ rebuildRuns' = IF r.rebuilt THEN rebuildRuns + 1 ELSE rebuildRuns
       /\ rebuildsDone' = IF r.rebuilt /\ r.err = NoError THEN rebuildsDone + 1
                          ELSE rebuildsDone
       /\ cycleArrived' = arrived \cup {kind}
       /\ cycleRebuilds' = IF r.rebuilt THEN runs + 1 ELSE runs
       /\ changeEvents' = changeEvents

\* a registry handler: store the payload into its buffer, then syncData()
OnRegistryEvent(kind, stored) == AfterSyncData(kind, stored, syncData(data.areas, stored))

OnAreas ==
    \E areas \in AreasInputs :
        OnRegistryEvent("areas", [incomingData EXCEPT !.areas = Held(areas)])

OnDevices ==
    \E devices \in DevicesInputs :
        OnRegistryEvent("devices", [incomingData EXCEPT !.devices = Held(devices)])

OnEntities ==
    \E entities \in EntitiesInputs :
        OnRegistryEvent("entities", [incomingData EXCEPT !.entities = Held(entities)])

OnEntityStates ==
    \E entitiesMap \in EntityStatesInputs :
        OnRegistryEvent("entity_states",
                        [incomingData EXCEPT !.entityStates = Held(entitiesMap)])

\* the entity_state_change handler: merged into the held states buffer, or applied to
\* the model when no states buffer is held
OnEntityStateChangeWith(changes) ==
        /\ changeEvents < MaxChanges
        /\ changeEvents' = changeEvents + 1
        /\ IF incomingData.entityStates.held
           THEN /\ incomingData' =
                       [incomingData EXCEPT !.entityStates.v = mergeChangesFrom(1, @, changes)]
                /\ data' = data
                /\ last' = [op |-> "entity_state_change", err |-> NoError,
                            rebuilt |-> FALSE, quartet |-> EmptyIncomingData,
                            changes |-> changes]
           ELSE LET r == applyChangesFrom(1, data.areas, changes)
                IN /\ data' = [data EXCEPT !.areas = r.areas]
                   /\ incomingData' = incomingData
                   /\ last' = [op |-> "entity_state_change", err |-> r.err,
                               rebuilt |-> FALSE, quartet |-> EmptyIncomingData,
                               changes |-> changes]
        /\ UNCHANGED <<rebuildRuns, rebuildsDone, cycleArrived, cycleRebuilds>>

OnEntityStateChange == \E changes \in ChangesInputs : OnEntityStateChangeWith(changes)

---------------------------------------------------------------------------
(* HomeAssistantWebSocketClient *)

SERVER_MESSAGE_TYPES ==
    [AUTH_REQUIRED |-> "auth_required", AUTH_OK |-> "auth_ok",
     AUTH_INVALID |-> "auth_invalid", RESULT |-> "result", EVENT |-> "event"]

CLIENT_MESSAGE_TYPES ==
    [AUTH |-> "auth", SUBSCRIBE_ENTITIES |-> "subscribe_entities",
     CALL_SERVICE |-> "call_service",
     GET_AREA_REGISTRY |-> "config/area_registry/list",
     GET_DEVICE_REGISTRY |-> "config/device_registry/list",
     GET_ENTITY_REGISTRY |-> "config/entity_registry/list"]

\* Number.MAX_SAFE_INTEGER is 2^53 - 1; TLC's integers are 32 bits wide, so the model
\* takes the largest value TLC can hold
MAX_SAFE_INTEGER == 2147483647

NoSocket == [ref |-> FALSE, readyState |-> "NONE", sendAfterCloseThrows |-> FALSE]
NoTimer == [set |-> FALSE, armed |-> FALSE]
NoIds == [areas |-> 0, devices |-> 0, entities |-> 0, entityStates |-> 0]

NoFrame == [id |-> 0, hasError |-> FALSE]

\* what an operation of the client did: the error it threw, the typed event it emitted,
\* the ids its calls of send returned, and the result frame it handled
ClientOutcome(op, err, emitted) ==
    [op |-> op, err |-> err, emitted |-> emitted, returned |-> <<>>, frame |-> NoFrame]

\* a mutant of socketClose: the transport is left as it was
socketCloseLeavingOpen(sock) == sock

\* socket.close() of the transport library
socketClose(sock) == [sock EXCEPT !.readyState = "CLOSED"]

\* a mutant of clearRefetchInterval: the interval is not cleared
clearRefetchIntervalForgotten(timer) == timer

\* if (this.refetchInterval) clearInterval(this.refetchInterval)
clearRefetchInterval(timer) == IF timer.set THEN [timer EXCEPT !.armed = FALSE] ELSE timer

\* the transport library's send(): written when the transport is open; throws while it is
\* connecting; on a closed transport it throws or discards the frame, by library version
TransportSend(c, frame) ==
    IF c.socket.readyState = "OPEN" THEN [err |-> NoError, sent |-> Append(c.sent, frame)]
    ELSE IF c.socket.readyState = "CONNECTING" \/ c.socket.sendAfterCloseThrows
    THEN [err |-> "WebSocket is not open", sent |-> c.sent]
    ELSE [err |-> NoError, sent |-> c.sent]

\* a mutant of nextRunningId: the counter wraps to 0
nextRunningIdWrappingToZero(id) == IF id + 1 >= MAX_SAFE_INTEGER THEN 0 ELSE id + 1

\* lines 226-227 of send: the counter after the id has been handed out
nextRunningId(id) == IF id + 1 >= MAX_SAFE_INTEGER THEN 1 ELSE id + 1

\* send(type, payload) on the client state c = [socket, runningId, sent]:
\* [err, id, runningId, sent]
send(c, type, payload) ==
    IF ~c.socket.ref
    THEN [err |-> "Socket is not connected", id |-> 0, runningId |-> c.runningId,
          sent |-> c.sent]
    ELSE LET id == c.runningId
             w == TransportSend(c, [type |-> type, id |-> id, payload |-> payload])
         IN IF w.err /= NoError
            THEN [err |-> w.err, id |-> 0, runningId |-> c.runningId, sent |-> c.sent]
            ELSE [err |-> NoError, id |-> id,
                  runningId |-> nextRunningId(c.runningId),
                  sent |-> w.sent]

NoPayload == [none |-> TRUE]

\* sendDataRequests(): four sends in order, each id stored as it is returned; a throw
\* leaves the ids already stored: [err, ids, runningId, sent]
sendDataRequests(c, table) ==
    IF ~c.socket.ref
    THEN [err |-> "Attempting to sendDataRequests but socket is not connected",
          ids |-> table, runningId |-> c.runningId, sent |-> c.sent]
    ELSE
      LET s1 == send(c, CLIENT_MESSAGE_TYPES.GET_AREA_REGISTRY, NoPayload)
          c1 == [c EXCEPT !.runningId = s1.runningId, !.sent = s1.sent]
          t1 == [table EXCEPT !.areas = s1.id]
          s2 == send(c1, CLIENT_MESSAGE_TYPES.GET_DEVICE_REGISTRY, NoPayload)
          c2 == [c1 EXCEPT !.runningId = s2.runningId, !.sent = s2.sent]
          t2 == [t1 EXCEPT !.devices = s2.id]
          s3 == send(c2, CLIENT_MESSAGE_TYPES.GET_ENTITY_REGISTRY, NoPayload)
          c3 == [c2 EXCEPT !.runningId = s3.runningId, !.sent = s3.sent]
          t3 == [t2 EXCEPT !.entities = s3.id]
          s4 == send(c3, CLIENT_MESSAGE_TYPES.SUBSCRIBE_ENTITIES, NoPayload)
          t4 == [t3 EXCEPT !.entityStates = s4.id]
      IN IF s1.err /= NoError
         THEN [err |-> s1.err, ids |-> table, runningId |-> c.runningId, sent |-> c.sent,
               returned |-> <<>>]
         ELSE IF s2.err /= NoError
         THEN [err |-> s2.err, ids |-> t1, runningId |-> c1.runningId, sent |-> c1.sent,
               returned |-> <<s1.id>>]
         ELSE IF s3.err /= NoError
         THEN [err |-> s3.err, ids |-> t2, runningId |-> c2.runningId, sent |-> c2.sent,
               returned |-> <<s1.id, s2.id>>]
         ELSE IF s4.err /= NoError
         THEN [err |-> s4.err, ids |-> t3, runningId |-> c3.runningId, sent |-> c3.sent,
               returned |-> <<s1.id, s2.id, s3.id>>]
         ELSE [err |-> NoError, ids |-> t4, runningId |-> s4.runningId, sent |-> s4.sent,
               returned |-> <<s1.id, s2.id, s3.id, s4.id>>]

\* the service-call payload of the command helpers
ServiceCall(service, entityId, brightness) ==
    [domain |-> "light", service |-> service,
     service_data |-> [entity_id |-> entityId, brightness |-> brightness]]

\* the command helpers: one send of a call_service request each
sendToggleLight(c, entityId) ==
    send(c, CLIENT_MESSAGE_TYPES.CALL_SERVICE, ServiceCall("toggle", entityId, UndefinedV))

sendTurnOnLight(c, entityId, brightness) ==
    send(c, CLIENT_MESSAGE_TYPES.CALL_SERVICE, ServiceCall("turn_on", entityId, brightness))

sendTurnOffLight(c, entityId) ==
    send(c, CLIENT_MESSAGE_TYPES.CALL_SERVICE, ServiceCall("turn_off", entityId, UndefinedV))

Client == [socket |-> socket, runningId |-> runningId, sent |-> sent]

InitClient ==
    /\ socket = NoSocket
    /\ runningId = 1
    /\ ids = NoIds
    /\ refetchInterval = NoTimer
    /\ sent = <<>>
    /\ hub = "none"
    /\ ticks = 0
    /\ calls = 0
    /\ frames = 0
    /\ clientLast = ClientOutcome("none", NoError, "none")

\* a mutant of ConnectRefused: connect() never refuses
ConnectNeverRefused == FALSE

\* the guard of connect(): if (this.socket) throw
ConnectRefused == socket.ref

\* connect(): throws when this.socket is set; otherwise resets the counter, opens a
\* transport, registers its handlers, stores it and arms the refresh timer; the new
\* transport is of either kind of library
Connect ==
    IF ConnectRefused
    THEN /\ clientLast' = ClientOutcome("connect", "Socket unexpectedly already connected",
                                        "none")
         /\ UNCHANGED <<socket, runningId, ids, refetchInterval, sent, hub, ticks, calls, frames>>
    ELSE /\ runningId' = 1
         /\ \E throws \in BOOLEAN :
               socket' = [ref |-> TRUE, readyState |-> "CONNECTING",
                          sendAfterCloseThrows |-> throws]
         /\ refetchInterval' = [set |-> TRUE, armed |-> TRUE]
         /\ hub' = "connecting"
         /\ sent' = <<>>
         /\ clientLast' = ClientOutcome("connect", NoError, "none")
         /\ UNCHANGED <<ids, ticks, calls, frames>>

\* socket.onopen: the transport is open; the hub will ask for authentication
SocketOpen ==
    /\ socket.readyState = "CONNECTING"
    /\ socket' = [socket EXCEPT !.readyState = "OPEN"]
    /\ hub' = "auth_required"
    /\ clientLast' = ClientOutcome("onopen", NoError, "none")
    /\ UNCHANGED <<runningId, ids, refetchInterval, sent, ticks, calls, frames>>

\* onmessage, auth_required: the auth message goes out on the transport, without an id
OnAuthRequired ==
    /\ socket.readyState = "OPEN"
    /\ hub = "auth_required"
    /\ sent' = Append(sent, [type |-> CLIENT_MESSAGE_TYPES.AUTH, id |-> 0,
                             payload |-> NoPayload])
    /\ hub' = "auth_sent"
    /\ clientLast' = ClientOutcome(SERVER_MESSAGE_TYPES.AUTH_REQUIRED, NoError, "none")
    /\ UNCHANGED <<socket, runningId, ids, refetchInterval, ticks, calls, frames>>

\* onmessage, auth_invalid: socket.close(), nothing else
OnAuthInvalid ==
    /\ socket.readyState = "OPEN"
    /\ hub = "auth_sent"
    /\ socket' = socketClose(socket)
    /\ hub' = "auth_invalid"
    /\ clientLast' = ClientOutcome(SERVER_MESSAGE_TYPES.AUTH_INVALID, NoError, "none")
    /\ UNCHANGED <<runningId, ids, refetchInterval, sent, ticks, calls, frames>>

\* onmessage, auth_ok: sendDataRequests()
OnAuthOk ==
    /\ socket.readyState = "OPEN"
    /\ hub = "auth_sent"
    /\ LET r == sendDataRequests(Client, ids)
       IN /\ ids' = r.ids
          /\ runningId' = r.runningId
          /\ sent' = r.sent
          /\ clientLast' = [ClientOutcome(SERVER_MESSAGE_TYPES.AUTH_OK, r.err, "none")
                               EXCEPT !.returned = r.returned]
    /\ hub' = "authenticated"
    /\ UNCHANGED <<socket, refetchInterval, ticks, calls, frames>>

\* a mutant of ResultEvent: an answer to an older areas request is taken for the current one
ResultEventMatchingOlderIds(id, hasError) ==
    IF hasError THEN "none"
    ELSE IF id <= ids.areas /\ id % 4 = ids.areas % 4 THEN "areas"
    ELSE IF id = ids.devices THEN "devices"
    ELSE IF id = ids.entities THEN "entities"
    ELSE "none"

\* a mutant of ResultEvent: the error field of the frame is not looked at
ResultEventIgnoringError(id, hasError) ==
    IF id = ids.areas THEN "areas"
    ELSE IF id = ids.devices THEN "devices"
    ELSE IF id = ids.entities THEN "entities"
    ELSE "none"

\* the typed event a result frame is dispatched to
ResultEvent(id, hasError) ==
    IF hasError THEN "none"
    ELSE IF id = ids.areas THEN "areas"
    ELSE IF id = ids.devices THEN "devices"
    ELSE IF id = ids.entities THEN "entities"
    ELSE "none"

\* the types of the four requests sendDataRequests() writes
RegistryRequestTypes ==
    {CLIENT_MESSAGE_TYPES.GET_AREA_REGISTRY, CLIENT_MESSAGE_TYPES.GET_DEVICE_REGISTRY,
     CLIENT_MESSAGE_TYPES.GET_ENTITY_REGISTRY, CLIENT_MESSAGE_TYPES.SUBSCRIBE_ENTITIES}

\* the ids of the requests the hub has received on this transport
RequestIds == { sent[k].id : k \in { n \in 1..Len(sent) : sent[n].id /= 0 } }

\* onmessage, result: a frame answering any request the hub has received
ResultFrame ==
    /\ socket.readyState = "OPEN"
    /\ hub = "authenticated"
    /\ \E id \in RequestIds, hasError \in BOOLEAN :
          clientLast' = [ClientOutcome(SERVER_MESSAGE_TYPES.RESULT,
                                       NoError, ResultEvent(id, hasError))
                          EXCEPT !.frame = [id |-> id, hasError |-> hasError]]
    /\ UNCHANGED <<socket, runningId, ids, refetchInterval, sent, hub, ticks, calls>>

OnResult == ResultFrame /\ UNCHANGED frames

\* onmessage, event: "a" in the event, else "c" in the event, else nothing
EventFrame ==
    /\ socket.readyState = "OPEN"
    /\ hub = "authenticated"
    /\ \E hasA \in BOOLEAN, hasC \in BOOLEAN :
          clientLast' = ClientOutcome(SERVER_MESSAGE_TYPES.EVENT, NoError,
                                      IF hasA THEN "entity_states"
                                      ELSE IF hasC THEN "entity_state_change"
                                      ELSE "none")
    /\ UNCHANGED <<socket, runningId, ids, refetchInterval, sent, hub, ticks, calls>>

OnEvent == EventFrame /\ UNCHANGED frames

\* the hub, or the network, closes the transport: socket.onclose only logs
HubCloses ==
    /\ socket.readyState \in {"CONNECTING", "OPEN"}
    /\ socket' = [socket EXCEPT !.readyState = "CLOSED"]
    /\ hub' = "closed"
    /\ clientLast' = ClientOutcome("onclose", NoError, "none")
    /\ UNCHANGED <<runningId, ids, refetchInterval, sent, ticks, calls, frames>>

\* a mutant of TimerTick: the callback fires without re-issuing the four requests
TimerTickWithoutRequests ==
    /\ refetchInterval.armed
    /\ ticks < MaxTicks
    /\ ticks' = ticks + 1
    /\ clientLast' = ClientOutcome("tick", NoError, "none")
    /\ UNCHANGED <<socket, runningId, ids, refetchInterval, sent, hub, calls, frames>>

\* the setInterval callback of connect()
TimerTick ==
    /\ refetchInterval.armed
    /\ ticks < MaxTicks
    /\ ticks' = ticks + 1
    /\ IF socket.ref
       THEN LET r == sendDataRequests(Client, ids)
            IN /\ ids' = r.ids
               /\ runningId' = r.runningId
               /\ sent' = r.sent
               /\ refetchInterval' = refetchInterval
               /\ clientLast' = [ClientOutcome("tick", r.err, "none")
                                    EXCEPT !.returned = r.returned]
       ELSE /\ refetchInterval' = clearRefetchInterval(refetchInterval)
            /\ clientLast' = ClientOutcome("tick", NoError, "none")
            /\ UNCHANGED <<ids, runningId, sent>>
    /\ UNCHANGED <<socket, hub, calls, frames>>

\* close(): with this.socket set, clears the timer and closes the transport
Close ==
    /\ IF socket.ref
       THEN /\ refetchInterval' = clearRefetchInterval(refetchInterval)
            /\ socket' = socketClose(socket)
            /\ hub' = IF socket.readyState = "CLOSED" THEN hub ELSE "closed"
            /\ clientLast' = ClientOutcome("close", NoError, "closed")
       ELSE /\ clientLast' = ClientOutcome("close", NoError, "none")
            /\ UNCHANGED <<socket, refetchInterval, hub>>
    /\ UNCHANGED <<runningId, ids, sent, ticks, calls, frames>>

\* the state a command helper leaves: r is the outcome of its send
AfterCommand(service, r) ==
    /\ calls < MaxCalls
    /\ calls' = calls + 1
    /\ runningId' = r.runningId
    /\ sent' = r.sent
    /\ clientLast' = [ClientOutcome(service, r.err, "none")
                         EXCEPT !.returned = IF r.err = NoError THEN <<r.id>> ELSE <<>>]
    /\ UNCHANGED <<socket, ids, refetchInterval, hub, ticks, frames>>

\* sendToggleLight(entityId) called by the owner of the client
SendToggleLight == AfterCommand("toggle", sendToggleLight(Client, LightDesk))

\* sendTurnOnLight(entityId, data) called by the owner of the client
SendTurnOnLight ==
    \E brightness \in {UndefinedV, Num(128)} :
        AfterCommand("turn_on", sendTurnOnLight(Client, LightDesk, brightness))

\* sendTurnOffLight(entityId) called by the owner of the client
SendTurnOffLight == AfterCommand("turn_off", sendTurnOffLight(Client, LightDesk))

---------------------------------------------------------------------------
(* DataManager: the commands, issued through its client *)

\* a mutant of getLights: an unknown area has no lights
getLightsOfUnknownAreaEmpty(areas, areaId) ==
    LET ai == AreaIndex(areas, areaId)
    IN IF ai = 0 THEN [err |-> NoError, lights |-> <<>>]
       ELSE [err |-> NoError, lights |-> areas[ai].lights]

getLights(areas, areaId) ==
    LET ai == AreaIndex(areas, areaId)
    IN IF ai = 0 THEN [err |-> "Area not found", lights |-> <<>>]
       ELSE [err |-> NoError, lights |-> areas[ai].lights]

\* lights.reduce((acc, light) => acc + (light.brightnessPercentage || 0), 0)
RECURSIVE totalBrightnessFrom(_, _)
totalBrightnessFrom(i, lights) ==
    IF i > Len(lights) THEN 0
    ELSE (IF lights[i].brightnessPercentage.t = "number"
          THEN lights[i].brightnessPercentage.n ELSE 0)
         + totalBrightnessFrom(i + 1, lights)

\* getAverageBrightness(areaId): the quotient total / count is kept as the pair it is
\* computed from; no lights gives 0
getAverageBrightness(areas, areaId) ==
    IF getLights(areas, areaId).err /= NoError
    THEN [err |-> getLights(areas, areaId).err, total |-> 0, count |-> 1]
    ELSE IF Len(getLights(areas, areaId).lights) = 0
    THEN [err |-> NoError, total |-> 0, count |-> 1]
    ELSE [err |-> NoError, total |-> totalBrightnessFrom(1, getLights(areas, areaId).lights),
          count |-> Len(getLights(areas, areaId).lights)]

\* String(n) on the numbers the model uses
NumberText(n) ==
    CASE n = 0 -> "0"
      [] n = 20 -> "20"
      [] n = 68 -> "68"
      [] n = 128 -> "128"
      [] n = 255 -> "255"
      [] n = 400 -> "400"
      [] n = 1000 -> "1000"
      [] n = 1001 -> "1001"
      [] OTHER -> "NaN"

\* `${str} ${sensor.unitOfMeasurement}`: the text is kept as its two words
Reading(sensor) ==
    IF sensor = NullV THEN NullV
    ELSE IF sensor.state = UnavailableV THEN UnavailableV
    ELSE [t |-> "reading", words |-> <<NumberText(sensor.state.n), sensor.unitOfMeasurement>>]

\* get<Kind>InsideReading(areaId)
getHumidityInsideReading(areas, areaId) ==
    IF AreaIndex(areas, areaId) = 0 THEN [err |-> "Area not found", reading |-> NullV]
    ELSE [err |-> NoError, reading |-> Reading(areas[AreaIndex(areas, areaId)].humiditySensor)]

getTemperatureInsideReading(areas, areaId) ==
    IF AreaIndex(areas, areaId) = 0 THEN [err |-> "Area not found", reading |-> NullV]
    ELSE [err |-> NoError,
          reading |-> Reading(areas[AreaIndex(areas, areaId)].temperatureSensor)]

getCarbonDioxideInsideReading(areas, areaId) ==
    IF AreaIndex(areas, areaId) = 0 THEN [err |-> "Area not found", reading |-> NullV]
    ELSE [err |-> NoError,
          reading |-> Reading(areas[AreaIndex(areas, areaId)].carbonDioxideSensor)]

carbonDioxideThreshold == 1000

\* a mutant of DangerLevel: the threshold itself is dangerous
DangerLevelFromThreshold(reading) ==
    IF reading = NullV \/ reading = UnavailableV THEN "unknown"
    ELSE IF ParseNumber(reading.words[1]).t = "number"
            /\ ParseNumber(reading.words[1]).n >= carbonDioxideThreshold
    THEN "danger"
    ELSE "safe"

\* parseInt(reading.split(" ")[0]) > 1000; NaN compares false
DangerLevel(reading) ==
    IF reading = NullV \/ reading = UnavailableV THEN "unknown"
    ELSE IF ParseNumber(reading.words[1]).t = "number"
            /\ ParseNumber(reading.words[1]).n > carbonDioxideThreshold
    THEN "danger"
    ELSE "safe"

getCarbonDioxideDangerLevel(areas, areaId) ==
    IF getCarbonDioxideInsideReading(areas, areaId).err /= NoError
    THEN [err |-> getCarbonDioxideInsideReading(areas, areaId).err, level |-> Null]
    ELSE [err |-> NoError,
          level |-> DangerLevel(getCarbonDioxideInsideReading(areas, areaId).reading)]

\* a mutant of NeedsTurnOn: every light is commanded
NeedsTurnOnAlways(light) == TRUE

\* a mutant of NeedsTurnOn: every light that is not on is commanded
NeedsTurnOnUnlessOn(light) == light.state /= "on"

\* the test of turnOnAllLights
NeedsTurnOn(light) == light.state = "off"

\* the test of turnOffAllLights
NeedsTurnOff(light) == light.state = "on"

Command(service, entityId, brightness) ==
    [service |-> service, entityId |-> entityId, brightness |-> brightness]

\* the outcome of an area command so far: the client after the calls made, the calls
\* made (a call that threw included) and the ids they returned
CommandsSoFar(c, err, issued, returned) ==
    [client |-> c, err |-> err, issued |-> issued, returned |-> returned]

\* one call of a client helper, with outcome r, added to the outcome o of the loop
AfterHelper(o, command, r) ==
    IF r.err /= NoError
    THEN [o EXCEPT !.err = r.err, !.issued = Append(@, command)]
    ELSE [o EXCEPT !.client.runningId = r.runningId, !.client.sent = r.sent,
                   !.issued = Append(@, command), !.returned = Append(@, r.id)]

\* turnOnLight(entityId) / turnOffLight(entityId)
turnOnLight(o, entityId) ==
    AfterHelper(o, Command("turn_on", entityId, UndefinedV),
                sendTurnOnLight(o.client, entityId, UndefinedV))

turnOffLight(o, entityId) ==
    AfterHelper(o, Command("turn_off", entityId, UndefinedV),
                sendTurnOffLight(o.client, entityId))

\* a mutant of dimLight: the scaled value 0 is sent as a turn_on with brightness 0
dimLightNeverTurningOff(o, entityId, brightnessPercentage) ==
    AfterHelper(o, Command("turn_on", entityId, Num(getBrightnessValue(brightnessPercentage))),
                sendTurnOnLight(o.client, entityId,
                                Num(getBrightnessValue(brightnessPercentage))))

\* dimLight(entityId, brightnessPercentage); getBrightnessValue never returns null
dimLight(o, entityId, brightnessPercentage) ==
    IF getBrightnessValue(brightnessPercentage) = 0
    THEN turnOffLight(o, entityId)
    ELSE AfterHelper(o, Command("turn_on", entityId,
                                Num(getBrightnessValue(brightnessPercentage))),
                     sendTurnOnLight(o.client, entityId,
                                     Num(getBrightnessValue(brightnessPercentage))))

\* the loop of dimAllLights from light i on; a throw ends it
RECURSIVE dimAllLightsFrom(_, _, _, _)
dimAllLightsFrom(i, lights, brightnessPercentage, o) ==
    IF i > Len(lights) \/ o.err /= NoError THEN o
    ELSE dimAllLightsFrom(i + 1, lights, brightnessPercentage,
                          dimLight(o, lights[i].entityId, brightnessPercentage))

\* the loop of turnOnAllLights from light i on; a throw ends it
RECURSIVE turnOnAllLightsFrom(_, _, _)
turnOnAllLightsFrom(i, lights, o) ==
    IF i > Len(lights) \/ o.err /= NoError THEN o
    ELSE IF NeedsTurnOn(lights[i])
    THEN turnOnAllLightsFrom(i + 1, lights, turnOnLight(o, lights[i].entityId))
    ELSE turnOnAllLightsFrom(i + 1, lights, o)

\* the loop of turnOffAllLights from light i on; a throw ends it
RECURSIVE turnOffAllLightsFrom(_, _, _)
turnOffAllLightsFrom(i, lights, o) ==
    IF i > Len(lights) \/ o.err /= NoError THEN o
    ELSE IF NeedsTurnOff(lights[i])
    THEN turnOffAllLightsFrom(i + 1, lights, turnOffLight(o, lights[i].entityId))
    ELSE turnOffAllLightsFrom(i + 1, lights, o)

\* turnOnAllLights(areaId) / turnOffAllLights(areaId) on the model `areas`
turnOnAllLights(areas, areaId, c) ==
    IF getLights(areas, areaId).err /= NoError
    THEN CommandsSoFar(c, getLights(areas, areaId).err, <<>>, <<>>)
    ELSE turnOnAllLightsFrom(1, getLights(areas, areaId).lights,
                             CommandsSoFar(c, NoError, <<>>, <<>>))

turnOffAllLights(areas, areaId, c) ==
    IF getLights(areas, areaId).err /= NoError
    THEN CommandsSoFar(c, getLights(areas, areaId).err, <<>>, <<>>)
    ELSE turnOffAllLightsFrom(1, getLights(areas, areaId).lights,
                              CommandsSoFar(c, NoError, <<>>, <<>>))

dimAllLights(areas, areaId, brightnessPercentage, c) ==
    IF getLights(areas, areaId).err /= NoError
    THEN CommandsSoFar(c, getLights(areas, areaId).err, <<>>, <<>>)
    ELSE dimAllLightsFrom(1, getLights(areas, areaId).lights, brightnessPercentage,
                          CommandsSoFar(c, NoError, <<>>, <<>>))

\* the area ids the adapters pass to the commands: an area of the dashboard, and one
\* the hub does not know
CommandAreas == {"office", "garage"}

\* the light the adapters pass to the per-light commands
CommandLights == {LightDesk}

\* the percentages the adapters pass to the dim commands
DimPercentages == {0, 50}

\* the model if every command issued were applied to the cached light at once
RECURSIVE AppliedAtOnce(_, _, _)
AppliedAtOnce(i, areas, issued) ==
    IF i > Len(issued) THEN areas
    ELSE AppliedAtOnce(i + 1,
            updateLightState(areas, issued[i].entityId,
                             EntityState(IF issued[i].service = "turn_on" THEN "on"
                                         ELSE "off", NoAttrs)).areas,
            issued)

\* a mutant of AfterDataManagerCommand: the command is applied to the model at once
AfterDataManagerCommandAppliedAtOnce(op, areaId, entityId, brightnessPercentage, o) ==
    /\ calls < MaxCommands
    /\ calls' = calls + 1
    /\ runningId' = o.client.runningId
    /\ sent' = o.client.sent
    /\ clientLast' = [ClientOutcome(op, o.err, "none") EXCEPT !.returned = o.returned]
    /\ last' = [op |-> op, err |-> o.err, rebuilt |-> FALSE, quartet |-> EmptyIncomingData,
                areaId |-> areaId, entityId |-> entityId,
                brightnessPercentage |-> brightnessPercentage, issued |-> o.issued]
    /\ data' = [data EXCEPT !.areas = AppliedAtOnce(1, @, o.issued)]
    /\ UNCHANGED <<incomingData, rebuildRuns, rebuildsDone, changeEvents,
                   cycleArrived, cycleRebuilds>>
    /\ UNCHANGED <<socket, ids, refetchInterval, hub, ticks, frames>>

\* the state a command of the DataManager leaves: o is the outcome of its calls
AfterDataManagerCommand(op, areaId, entityId, brightnessPercentage, o) ==
    /\ calls < MaxCommands
    /\ calls' = calls + 1
    /\ runningId' = o.client.runningId
    /\ sent' = o.client.sent
    /\ clientLast' = [ClientOutcome(op, o.err, "none") EXCEPT !.returned = o.returned]
    /\ last' = [op |-> op, err |-> o.err, rebuilt |-> FALSE, quartet |-> EmptyIncomingData,
                areaId |-> areaId, entityId |-> entityId,
                brightnessPercentage |-> brightnessPercentage, issued |-> o.issued]
    /\ UNCHANGED <<data, incomingData, rebuildRuns, rebuildsDone, changeEvents,
                   cycleArrived, cycleRebuilds>>
    /\ UNCHANGED <<socket, ids, refetchInterval, hub, ticks, frames>>

\* the state an area command without a percentage leaves
AfterAreaCommand(op, areaId, o) == AfterDataManagerCommand(op, areaId, NoEntity, NullV, o)

TurnOnAllLights ==
    \E areaId \in CommandAreas :
        AfterAreaCommand("turnOnAllLights", areaId,
                         turnOnAllLights(data.areas, areaId, Client))

TurnOffAllLights ==
    \E areaId \in CommandAreas :
        AfterAreaCommand("turnOffAllLights", areaId,
                         turnOffAllLights(data.areas, areaId, Client))

DimAllLights ==
    \E areaId \in CommandAreas, p \in DimPercentages :
        AfterDataManagerCommand("dimAllLights", areaId, NoEntity, Num(p),
                                dimAllLights(data.areas, areaId, Num(p), Client))

\* the per-light commands: no look at the model
TurnOnLight ==
    \E entityId \in CommandLights :
        AfterDataManagerCommand("turnOnLight", Null, entityId, NullV,
                                turnOnLight(CommandsSoFar(Client, NoError, <<>>, <<>>),
                                            entityId))

TurnOffLight ==
    \E entityId \in CommandLights :
        AfterDataManagerCommand("turnOffLight", Null, entityId, NullV,
                                turnOffLight(CommandsSoFar(Client, NoError, <<>>, <<>>),
                                             entityId))

DimLight ==
    \E entityId \in CommandLights, p \in DimPercentages :
        AfterDataManagerCommand("dimLight", Null, entityId, Num(p),
                                dimLight(CommandsSoFar(Client, NoError, <<>>, <<>>),
                                         entityId, Num(p)))

---------------------------------------------------------------------------
(* The DataManager wired to its client: start() registers the handlers on the client's  *)
(* event emitter, and emit() runs them inside the frame handler                         *)

SystemAreas == <<AreaLiving, AreaKitchen, AreaBedroom, AreaOffice>>
SystemDevices == <<DeskInOffice, LampInOffice, Aranet>>
SystemEntities ==
    <<HassEntity(LightDesk, "dev_desk"), HassEntity(LightLamp, "dev_lamp"),
      HassEntity(OfficeCo2, "dev_aranet")>>

SystemEntityStatesInputs ==
    { <<Entry(LightDesk, EntityState("off", Attrs(NullV, NullV, Undefined))),
        Entry(LightLamp, EntityState("on", Attrs(Num(255), NullV, Undefined))),
        Entry(OfficeCo2, EntityState("1000", Attrs(UndefinedV, UndefinedV, "ppm")))>>,
      <<Entry(LightDesk, EntityState("unavailable", Attrs(NullV, NullV, Undefined))),
        Entry(LightLamp, EntityState("off", Attrs(NullV, NullV, Undefined)))>> }

SystemChangesInputs == { <<Entry(LightDesk, EntityState("on", NoAttrs))>> }

\* eventEmitter.emit(event, payload): the handler start() registered for it runs
Emit(event) ==
    IF event = "areas"
    THEN OnRegistryEvent("areas", [incomingData EXCEPT !.areas = Held(SystemAreas)])
    ELSE IF event = "devices"
    THEN OnRegistryEvent("devices", [incomingData EXCEPT !.devices = Held(SystemDevices)])
    ELSE IF event = "entities"
    THEN OnRegistryEvent("entities",
                         [incomingData EXCEPT !.entities = Held(SystemEntities)])
    ELSE IF event = "entity_states"
    THEN \E entitiesMap \in SystemEntityStatesInputs :
            OnRegistryEvent("entity_states",
                            [incomingData EXCEPT !.entityStates = Held(entitiesMap)])
    ELSE IF event = "entity_state_change"
    THEN \E changes \in SystemChangesInputs : OnEntityStateChangeWith(changes)
    ELSE UNCHANGED dmVars

\* a result or event frame reaches the client of a DataManager: the typed event it is
\* dispatched to is emitted to the DataManager
FrameHandled(event) ==
    /\ frames < MaxFrames
    /\ frames' = frames + 1
    /\ Emit(event)

OnResultFrame == ResultFrame /\ FrameHandled(clientLast'.emitted)

OnEventFrame == EventFrame /\ FrameHandled(clientLast'.emitted)

---------------------------------------------------------------------------
(* The DataManager of one home: the registries do not change between refreshes, the     *)
(* states do                                                                            *)

OfficeTemperature == <<"sensor", "aranet4_23f66_temperature">>

HomeEntities ==
    <<HassEntity(LightDesk, "dev_desk"), HassEntity(LightLamp, "dev_lamp"),
      HassEntity(OfficeCo2, "dev_aranet"), HassEntity(OfficeTemperature, "dev_aranet")>>

\* two snapshots: the thermometer reports in Fahrenheit in the first; the desk light
\* carries no state and the sensors no number in the second
HomeEntityStatesInputs ==
    { <<Entry(LightDesk, EntityState("off", Attrs(NullV, NullV, Undefined))),
        Entry(LightLamp, EntityState("on", Attrs(Num(255), NullV, Undefined))),
        Entry(OfficeCo2, EntityState("1000", Attrs(UndefinedV, UndefinedV, "ppm"))),
        Entry(OfficeTemperature, EntityState("68", Attrs(UndefinedV, UndefinedV, "F")))>>,
      <<Entry(LightDesk, EntityState(Undefined, Attrs(NullV, NullV, Undefined))),
        Entry(LightLamp, EntityState("off", Attrs(NullV, NullV, Undefined))),
        Entry(OfficeCo2, EntityState("unavailable", Attrs(UndefinedV, UndefinedV, "ppm"))),
        Entry(OfficeTemperature, EntityState("20", Attrs(UndefinedV, UndefinedV, "C")))>> }

\* two change events: new readings, and a light patch that carries attributes only
HomeChangesInputs ==
    { <<Entry(OfficeCo2, EntityState("1001", NoAttrs)),
        Entry(OfficeTemperature, EntityState("68", Attrs(UndefinedV, UndefinedV, "F")))>>,
      <<Entry(LightLamp, EntityState(Undefined, Attrs(Num(128), NullV, Undefined))),
        Entry(LightDesk, EntityState("on", NoAttrs))>> }

\* eventEmitter.emit(event, payload) in this home
EmitHome(event) ==
    IF event = "areas"
    THEN OnRegistryEvent("areas", [incomingData EXCEPT !.areas = Held(SystemAreas)])
    ELSE IF event = "devices"
    THEN OnRegistryEvent("devices", [incomingData EXCEPT !.devices = Held(SystemDevices)])
    ELSE IF event = "entities"
    THEN OnRegistryEvent("entities", [incomingData EXCEPT !.entities = Held(HomeEntities)])
    ELSE IF event = "entity_states"
    THEN \E entitiesMap \in HomeEntityStatesInputs :
            OnRegistryEvent("entity_states",
                            [incomingData EXCEPT !.entityStates = Held(entitiesMap)])
    ELSE \E changes \in HomeChangesInputs : OnEntityStateChangeWith(changes)

TypedEvents == Kinds \cup {"entity_state_change"}

\* a typed event reaches the handlers of the DataManager
HomeEvent ==
    /\ \E event \in TypedEvents : EmitHome(event)
    /\ UNCHANGED clientVars

\* the client, authenticated on an open transport, is handed a frame and emits its
\* typed event
HomeFrame ==
    /\ socket.readyState = "OPEN"
    /\ hub = "authenticated"
    /\ frames < MaxFrames
    /\ frames' = frames + 1
    /\ \E event \in TypedEvents : EmitHome(event)
    /\ UNCHANGED <<socket, runningId, ids, refetchInterval, sent, hub, ticks, calls,
                   clientLast>>

---------------------------------------------------------------------------
(* The DataManager of a home that is rearranged between refreshes: a garage is added    *)
(* and removed, the office is renamed, the desk light moves to the garage, and entities *)
(* drop out of the states snapshot                                                      *)

AreaGarage == HassArea("garage", Null, "Garage")
DeskInGarage == HassDevice("dev_desk", "garage", "Desk Lamp")

ChangingAreasInputs ==
    { <<AreaLiving, AreaKitchen, AreaBedroom, AreaOffice>>,
      <<AreaGarage, AreaLiving, AreaKitchen, AreaBedroom, AreaStudy>> }

ChangingDevicesInputs ==
    { <<DeskInOffice, LampInOffice, Aranet>>,
      <<DeskInGarage, LampInOffice, Aranet>> }

\* two snapshots: both lights and the CO2 sensor, the lamp red; the desk light alone
ChangingEntityStatesInputs ==
    { <<Entry(LightDesk, EntityState("off", Attrs(NullV, NullV, Undefined))),
        Entry(LightLamp, EntityState("on", Attrs(Num(255), Red, Undefined))),
        Entry(OfficeCo2, EntityState("1000", Attrs(UndefinedV, UndefinedV, "ppm")))>>,
      <<Entry(LightDesk, EntityState("on", Attrs(Num(128), NullV, Undefined)))>> }

\* two change events: a CO2 reading followed by a desk patch without attributes, and a
\* lamp patch whose attributes name the brightness only
ChangingChangesInputs ==
    { <<Entry(OfficeCo2, EntityState("1001", NoAttrs)),
        Entry(LightDesk, EntityState("off", NoAttrs))>>,
      <<Entry(LightLamp, EntityState("on", Attrs(Num(128), UndefinedV, Undefined)))>> }

\* eventEmitter.emit(event, payload) in this home
EmitChanging(event) ==
    IF event = "areas"
    THEN \E areas \in ChangingAreasInputs :
            OnRegistryEvent("areas", [incomingData EXCEPT !.areas = Held(areas)])
    ELSE IF event = "devices"
    THEN \E devices \in ChangingDevicesInputs :
            OnRegistryEvent("devices", [incomingData EXCEPT !.devices = Held(devices)])
    ELSE IF event = "entities"
    THEN OnRegistryEvent("entities",
                         [incomingData EXCEPT !.entities = Held(SystemEntities)])
    ELSE IF event = "entity_states"
    THEN \E entitiesMap \in ChangingEntityStatesInputs :
            OnRegistryEvent("entity_states",
                            [incomingData EXCEPT !.entityStates = Held(entitiesMap)])
    ELSE \E changes \in ChangingChangesInputs : OnEntityStateChangeWith(changes)

\* a typed event reaches the handlers of the DataManager
ChangingEvent ==
    /\ \E event \in TypedEvents : EmitChanging(event)
    /\ UNCHANGED clientVars

---------------------------------------------------------------------------
(* data.ts: the conversion helpers applied to the values a caller can pass *)

Percentages == 0..fullPercentage

\* getBrightnessValue(p), and the percentage the hub's raw value reads back as
ApplyGetBrightnessValue ==
    /\ \E p \in Percentages :
          last' = [op |-> "getBrightnessValue", err |-> NoError,
                   brightnessPercentage |-> p,
                   brightness |-> getBrightnessValue(Num(p)),
                   readBack |-> getBrightnessPercentage(Num(getBrightnessValue(Num(p))))]
    /\ UNCHANGED <<data, incomingData, rebuildRuns, rebuildsDone, changeEvents,
                   cycleArrived, cycleRebuilds>>
    /\ UNCHANGED clientVars

TemperatureValues ==
    { Num(n) : n \in (0 - MaxTemperature)..MaxTemperature } \cup {UnavailableV}

TemperatureUnits ==
    {TEMPERATURE_UNIT_OF_MEASUREMENTS.celsius, TEMPERATURE_UNIT_OF_MEASUREMENTS.fahrenheit}

\* calcTemperatureValue(value, unit, target), and its result converted back
ApplyCalcTemperatureValue ==
    /\ \E value \in TemperatureValues, unit \in TemperatureUnits, target \in TemperatureUnits :
          last' = [op |-> "calcTemperatureValue", err |-> NoError,
                   value |-> value, unitOfMeasurement |-> unit,
                   targetUnitOfMeasurement |-> target,
                   converted |-> calcTemperatureValue(value, unit, target),
                   convertedBack |->
                       calcTemperatureValue(calcTemperatureValue(value, unit, target),
                                            target, unit)]
    /\ UNCHANGED <<data, incomingData, rebuildRuns, rebuildsDone, changeEvents,
                   cycleArrived, cycleRebuilds>>
    /\ UNCHANGED clientVars

---------------------------------------------------------------------------
(* Specifications *)

Init == InitDataManager /\ InitClient

\* the four-request frames the hub has received on this transport, in the order sent
DataRequests ==
    LET IsDataRequest(frame) == frame.type \in RegistryRequestTypes
    IN SelectSeq(sent, IsDataRequest)

\* the connection is live: the transport is open and the hub has accepted the token
ConnectionLive == socket.readyState = "OPEN" /\ hub = "authenticated"

\* the hub has received a request on a live connection that it has not answered yet
HubAnswerDue == ConnectionLive /\ frames < Len(DataRequests)

\* the hub answers the oldest request it has not answered yet, without an error: a
\* registry request with its result frame, a subscription with the "a" event carrying
\* the states snapshot; frames counts the requests answered so far
HubAnswers ==
    /\ HubAnswerDue
    /\ frames' = frames + 1
    /\ IF DataRequests[frames + 1].type = CLIENT_MESSAGE_TYPES.SUBSCRIBE_ENTITIES
       THEN EventFrame /\ clientLast'.emitted = "entity_states"
       ELSE ResultFrame
            /\ clientLast'.frame = [id |-> DataRequests[frames + 1].id, hasError |-> FALSE]
    /\ Emit(clientLast'.emitted)

\* the refresh timer is armed and every refresh cycle started can still end in a rebuild
RefreshDue == refetchInterval.armed /\ ticks < MaxTicks /\ ticks + 1 < MaxRebuilds

\* the refresh timer fires
RefreshTick ==
    /\ RefreshDue
    /\ TimerTick

\* the refresh timer fires on a live connection
LiveRefreshTick ==
    /\ ConnectionLive
    /\ RefreshTick

\* a payload in its buffer, with the id of the request the hub sent it for
HeldFor(v, id) == [held |-> TRUE, v |-> v, id |-> id]

\* eventEmitter.emit(event, payload) for the answer to request id
EmitAnswer(event, id) ==
    IF event = "areas"
    THEN OnRegistryEvent("areas", [incomingData EXCEPT !.areas = HeldFor(SystemAreas, id)])
    ELSE IF event = "devices"
    THEN OnRegistryEvent("devices",
                         [incomingData EXCEPT !.devices = HeldFor(SystemDevices, id)])
    ELSE IF event = "entities"
    THEN OnRegistryEvent("entities",
                         [incomingData EXCEPT !.entities = HeldFor(SystemEntities, id)])
    ELSE IF event = "entity_states"
    THEN \E entitiesMap \in SystemEntityStatesInputs :
            OnRegistryEvent("entity_states",
                            [incomingData EXCEPT !.entityStates = HeldFor(entitiesMap, id)])
    ELSE UNCHANGED dmVars

\* HubAnswers, each payload remembered with the id of the request it answers
HubAnswersById ==
    /\ HubAnswerDue
    /\ frames' = frames + 1
    /\ IF DataRequests[frames + 1].type = CLIENT_MESSAGE_TYPES.SUBSCRIBE_ENTITIES
       THEN EventFrame /\ clientLast'.emitted = "entity_states"
       ELSE ResultFrame
            /\ clientLast'.frame = [id |-> DataRequests[frames + 1].id, hasError |-> FALSE]
    /\ EmitAnswer(clientLast'.emitted, DataRequests[frames + 1].id)

\* the synchronizer driven by the typed events of the client
Next ==
    \/ OnAreas /\ UNCHANGED clientVars
    \/ OnDevices /\ UNCHANGED clientVars
    \/ OnEntities /\ UNCHANGED clientVars
    \/ OnEntityStates /\ UNCHANGED clientVars
    \/ OnEntityStateChange /\ UNCHANGED clientVars

Spec == Init /\ [][Next]_vars

\* the protocol client driven by its caller, the hub and the refresh timer
NextClient ==
    \/ Connect /\ UNCHANGED dmVars
    \/ SocketOpen /\ UNCHANGED dmVars
    \/ OnAuthRequired /\ UNCHANGED dmVars
    \/ OnAuthInvalid /\ UNCHANGED dmVars
    \/ OnAuthOk /\ UNCHANGED dmVars
    \/ OnResult /\ UNCHANGED dmVars
    \/ OnEvent /\ UNCHANGED dmVars
    \/ HubCloses /\ UNCHANGED dmVars
    \/ TimerTick /\ UNCHANGED dmVars
    \/ Close /\ UNCHANGED dmVars
    \/ SendToggleLight /\ UNCHANGED dmVars
    \/ SendTurnOnLight /\ UNCHANGED dmVars
    \/ SendTurnOffLight /\ UNCHANGED dmVars

SpecClient == Init /\ [][NextClient]_vars

\* the DataManager and its client together: frames drive the handlers, commands go out
\* through the client
NextSystem ==
    \/ Connect /\ UNCHANGED dmVars
    \/ SocketOpen /\ UNCHANGED dmVars
    \/ OnAuthRequired /\ UNCHANGED dmVars
    \/ OnAuthInvalid /\ UNCHANGED dmVars
    \/ OnAuthOk /\ UNCHANGED dmVars
    \/ OnResultFrame
    \/ OnEventFrame
    \/ HubCloses /\ UNCHANGED dmVars
    \/ TimerTick /\ UNCHANGED dmVars
    \/ Close /\ UNCHANGED dmVars

SpecSystem == Init /\ [][NextSystem]_vars

\* the synchronizer of one home driven by the typed events of its client
NextHome == HomeEvent

SpecHome == Init /\ [][NextHome]_vars

\* the synchronizer of a home that is rearranged between refreshes
NextChanging == ChangingEvent

SpecChanging == Init /\ [][NextChanging]_vars

\* the DataManager of one home, its client and the commands of its adapters
NextCommands ==
    \/ Connect /\ UNCHANGED dmVars
    \/ SocketOpen /\ UNCHANGED dmVars
    \/ OnAuthRequired /\ UNCHANGED dmVars
    \/ OnAuthOk /\ UNCHANGED dmVars
    \/ HomeFrame
    \/ TurnOnLight
    \/ TurnOffLight
    \/ DimLight
    \/ TurnOnAllLights
    \/ TurnOffAllLights
    \/ DimAllLights

SpecCommands == Init /\ [][NextCommands]_vars

\* the conversion helpers of data.ts called with every value of their bounded domains
NextHelpers ==
    \/ ApplyGetBrightnessValue
    \/ ApplyCalcTemperatureValue

SpecHelpers == Init /\ [][NextHelpers]_vars

\* the DataManager and its client on a hub that answers every request, with the refresh
\* timer running
NextRefresh ==
    \/ Connect /\ UNCHANGED dmVars
    \/ SocketOpen /\ UNCHANGED dmVars
    \/ OnAuthRequired /\ UNCHANGED dmVars
    \/ OnAuthOk /\ UNCHANGED dmVars
    \/ HubAnswers
    \/ RefreshTick /\ UNCHANGED dmVars
    \/ HubCloses /\ UNCHANGED dmVars

\* the DataManager and its client on a hub that answers every request, each buffered
\* payload remembered with the request it answers; the timer fires after the handshake
NextCycles ==
    \/ Connect /\ UNCHANGED dmVars
    \/ SocketOpen /\ UNCHANGED dmVars
    \/ OnAuthRequired /\ UNCHANGED dmVars
    \/ OnAuthOk /\ UNCHANGED dmVars
    \/ HubAnswersById
    \/ LiveRefreshTick /\ UNCHANGED dmVars

SpecCycles == Init /\ [][NextCycles]_vars

\* the hub keeps answering while an answer is due, and the timer keeps firing while it is
\* armed: frames changes in HubAnswers alone, ticks in RefreshTick alone
SpecRefresh ==
    /\ Init
    /\ [][NextRefresh]_vars
    /\ WF_frames(HubAnswerDue /\ frames' = frames + 1)
    /\ WF_ticks(RefreshDue /\ ticks' = ticks + 1)

\* a client late in a long connection: authenticated, the four requests of the last
\* refresh answered long ago, the counter a few ids below its upper bound
InitLateClient ==
    /\ socket \in {[ref |-> TRUE, readyState |-> "OPEN", sendAfterCloseThrows |-> throws] :
                      throws \in BOOLEAN}
    /\ runningId \in (MAX_SAFE_INTEGER - IdsBelowMax)..(MAX_SAFE_INTEGER - 1)
    /\ ids = [areas |-> 1, devices |-> 2, entities |-> 3, entityStates |-> 4]
    /\ refetchInterval = [set |-> TRUE, armed |-> TRUE]
    /\ sent = <<>>
    /\ hub = "authenticated"
    /\ ticks = 0
    /\ calls = 0
    /\ frames = 0
    /\ clientLast = ClientOutcome("none", NoError, "none")

InitIds == InitDataManager /\ (InitClient \/ InitLateClient)

\* the protocol client from construction, or from late in a connection
SpecIds == InitIds /\ [][NextClient]_vars

---------------------------------------------------------------------------
(* Read accessors *)

\* the light records of the model that carry entityId, as <<area position, light position>>
Occurrences(areas, entityId) ==
    UNION { { <<i, k>> : k \in { n \in 1..Len(areas[i].lights) :
                                    areas[i].lights[n].entityId = entityId } } :
            i \in 1..Len(areas) }

LightIdsOf(areas) ==
    UNION { { areas[i].lights[k].entityId : k \in 1..Len(areas[i].lights) } :
            i \in 1..Len(areas) }

\* the record a lookup by entityId finds first, in area order
FirstLight(areas, entityId) ==
    LET Has(a) == LightIndex(a.lights, entityId) /= 0
        ai == FirstIndex(areas, Has)
    IN areas[ai].lights[LightIndex(areas[ai].lights, entityId)]

LightEntries(changes) == { i \in 1..Len(changes) : IsLightEntityId(changes[i].entity_id) }

IsRegistryStep == last'.op \in Kinds
IsChangeStep == last'.op = "entity_state_change" /\ changeEvents' = changeEvents + 1

---------------------------------------------------------------------------
(* C1: starting from four empty buffers, whatever the order in which the four kinds of  *)
(* one quartet arrive, no rebuild runs while fewer than four kinds have arrived, and    *)
(* exactly one rebuild runs, on the arrival of the fourth kind.                         *)

\* the kinds that had arrived in the current quartet when a handler starts
ArrivedBefore == IF NoneHeld(incomingData) THEN {} ELSE cycleArrived

C1_RebuildOnFourthKind ==
    /\ [](cycleArrived /= Kinds => cycleRebuilds = 0)
    /\ [][ArrivedBefore /= Kinds =>
            IF IsRegistryStep /\ ArrivedBefore \cup {last'.op} = Kinds
            THEN /\ last'.rebuilt
                 /\ rebuildRuns' = rebuildRuns + 1
                 /\ cycleRebuilds' = 1
            ELSE /\ ~last'.rebuilt
                 /\ rebuildRuns' = rebuildRuns]_vars

\* the fourth kind to arrive was devices, and the one rebuild of the quartet ran
C1_Witness ==
    /\ last.op = "devices"
    /\ last.rebuilt
    /\ cycleArrived = Kinds
    /\ cycleRebuilds = 1
    /\ rebuildRuns = 2

---------------------------------------------------------------------------
(* C2: when a rebuild hits a structural-consistency violation (an entity id of the      *)
(* states snapshot with no entity-registry entry, an entity with no matching device, a  *)
(* device with no matching area) the Domain Model is exactly what it was before that    *)
(* rebuild started.                                                                     *)

StructuralErrors == {"Entity not found", "Device not found", "Area not found"}

C2_AbortedRebuildLeavesModel ==
    [][(last'.rebuilt /\ last'.err \in StructuralErrors) => data' = data]_vars

---------------------------------------------------------------------------
(* C3: in every reachable state each light entityId occurs in the lights collection of  *)
(* exactly one area, and at most once within that collection.                           *)

C3_OneLightPerEntityId ==
    \A entityId \in LightIdsOf(data.areas) :
        Cardinality(Occurrences(data.areas, entityId)) = 1

---------------------------------------------------------------------------
(* C4: after every run of the rebuild all four registry buffers are empty, so in every  *)
(* state between two handlers at least one buffer is empty.                             *)

C4_BuffersClearedByRebuild ==
    /\ last.rebuilt => NoneHeld(incomingData)
    /\ ~AllHeld(incomingData)

---------------------------------------------------------------------------
(* C5: a change event for a light-domain entity id that arrives before any rebuild has  *)
(* completed, whichever registry events have arrived by then, is retained, and the      *)
(* light state produced for that entity by the very next rebuild reflects that patch.   *)

\* the patch is held somewhere: in the states buffer, or in the light of the model
Retained(change) ==
    \/ /\ incomingData.entityStates.held
       /\ StateIndex(incomingData.entityStates.v, change.entity_id) /= 0
       /\ incomingData.entityStates.v[
              StateIndex(incomingData.entityStates.v, change.entity_id)].st.s = change.st.s
    \/ /\ change.entity_id \in LightIdsOf(data.areas)
       /\ FirstLight(data.areas, change.entity_id).state = getLightState(change.st.s)

C5_PatchBeforeSyncRetained ==
    /\ []((last.op = "entity_state_change" /\ rebuildsDone = 0) =>
            \A i \in LightEntries(last.changes) :
                last.changes[i].st.s /= Undefined => Retained(last.changes[i]))
    /\ [][(last.op = "entity_state_change" /\ rebuildsDone = 0
           /\ last'.rebuilt /\ last'.err = NoError) =>
            \A i \in LightEntries(last.changes) :
                last.changes[i].st.s /= Undefined =>
                    /\ last.changes[i].entity_id \in LightIdsOf(data'.areas)
                    /\ FirstLight(data'.areas, last.changes[i].entity_id).state =
                           getLightState(last.changes[i].st.s)]_vars

---------------------------------------------------------------------------
(* C6: once at least one rebuild has completed, every change event for a light that is  *)
(* in the model is applied to the live Domain Model at the moment the event is handled, *)
(* whatever events of a later refresh cycle sit in the buffers.                         *)

\* the patch of entry i of the change event just handled is in the model after the step
AppliedToModel(i) ==
    LET change == last'.changes[i]
    IN change.entity_id \in LightIdsOf(data.areas) =>
        /\ change.entity_id \in LightIdsOf(data'.areas)
        /\ FirstLight(data'.areas, change.entity_id) =
               PatchedLight(FirstLight(data.areas, change.entity_id), change.st)
        /\ FirstLight(data'.areas, change.entity_id).state = getLightState(change.st.s)

\* the patch of entry i of the change event just handled is in the states buffer after the step
MergedIntoBuffer(i) ==
    LET change == last'.changes[i]
        si == StateIndex(incomingData'.entityStates.v, change.entity_id)
    IN /\ si /= 0
       /\ change.st.s /= Undefined => incomingData'.entityStates.v[si].st.s = change.st.s
       /\ change.st.a.present => incomingData'.entityStates.v[si].st.a = change.st.a

---------------------------------------------------------------------------
(* C7: running the rebuild again with the snapshots the last rebuild consumed yields a  *)
(* Domain Model equal field for field to the one the last rebuild left (same areas,     *)
(* same lights in the same order, same sensors), sensor records that only the previous  *)
(* model held included.                                                                 *)

C7_RebuildIdempotent ==
    last.rebuilt =>
        LET again == Rebuild(data.areas, last.quartet)
        IN /\ again.areas = data.areas
           /\ again.err = last.err

\* a completed second rebuild whose states snapshot names neither the lamp nor the CO2
\* sensor that the model carries over from the first
C7_Witness ==
    /\ last.rebuilt
    /\ last.err = NoError
    /\ rebuildsDone = 2
    /\ StateIndex(last.quartet.entityStates.v, OfficeCo2) = 0
    /\ StateIndex(last.quartet.entityStates.v, LightLamp) = 0
    /\ {LightDesk, LightLamp} \subseteq LightIdsOf(data.areas)
    /\ \E i \in 1..Len(data.areas) :
          /\ data.areas[i].carbonDioxideSensor /= NullV
          /\ data.areas[i].carbonDioxideSensor.entityId = OfficeCo2

---------------------------------------------------------------------------
(* C8: for the consistent quartet of the single area "office" and one light entity,     *)
(* with the states snapshot arriving last, the rebuild on the 4th event completes       *)
(* without error and clears the buffers, and getLights("office") returns exactly one    *)
(* Light whose state is derived from the states payload.                                *)

OfficeQuartet ==
    [areas |-> Held(<<AreaOffice>>),
     devices |-> Held(<<DeskInOffice>>),
     entities |-> Held(<<HassEntity(LightDesk, "dev_desk")>>),
     entityStates |->
         Held(<<Entry(LightDesk, EntityState("on", Attrs(Num(128), Red, Undefined)))>>)]

C8_OfficeScenario ==
    (last.op = "entity_states" /\ last.rebuilt /\ last.quartet = OfficeQuartet
     /\ rebuildRuns = 1) =>
        /\ last.err = NoError
        /\ NoneHeld(incomingData)
        /\ getLights(data.areas, "office").err = NoError
        /\ Len(getLights(data.areas, "office").lights) = 1
        /\ getLights(data.areas, "office").lights[1].entityId = LightDesk
        /\ getLights(data.areas, "office").lights[1].state = "on"

---------------------------------------------------------------------------
(* Protocol client: reconnection and the refresh timer *)

\* the connection is gone: the transport this.socket refers to is closed
ConnectionGone == socket.ref /\ socket.readyState = "CLOSED"

(* C9: after an explicit close() on a connected client, a connect() on the same
   instance succeeds: it does not throw the already-connected error, it opens a new
   transport and the handshake starts again *)
C9_ConnectAfterClose ==
    [][(clientLast.op = "close" /\ clientLast.emitted = "closed"
          /\ clientLast'.op = "connect")
        => /\ clientLast'.err = NoError
           /\ socket'.readyState = "CONNECTING"
           /\ hub' = "connecting"
           /\ runningId' = 1]_vars

(* C10: once the connection is gone, through close(), through the close after an
   auth_invalid frame or through the hub closing the socket, the refresh timer is
   disarmed, and no later timer callback calls sendDataRequests, allocates an id,
   sends a frame or rewrites the correlation table *)
C10_TimerDisarmedWhenGone ==
    /\ [](ConnectionGone => ~refetchInterval.armed)
    /\ [][(ConnectionGone /\ ticks' = ticks + 1)
            => /\ runningId' = runningId
               /\ ids' = ids
               /\ sent' = sent
               /\ clientLast'.err = NoError]_vars

---------------------------------------------------------------------------
(* Protocol client: sending *)

\* the step is a call of a command helper / a callback of the refresh timer
IsCommandStep == calls' = calls + 1
IsTickStep == ticks' = ticks + 1
IsAuthOkStep == hub = "auth_sent" /\ hub' = "authenticated"

\* there is no live transport: none was ever opened, or the one opened is closed
NoLiveTransport == ~socket.ref \/ socket.readyState = "CLOSED"

(* C11: send, and so every command helper and sendDataRequests, fails with an error     *)
(* whenever there is no live transport, on a client never connected and on a client     *)
(* whose transport is closed alike; nothing is transmitted and the correlation counter  *)
(* and table are unchanged.                                                             *)
C11_SendFailsWithoutTransport ==
    [][(NoLiveTransport /\ (IsCommandStep \/ (IsTickStep /\ socket.ref))) =>
        /\ clientLast'.err /= NoError
        /\ sent' = sent
        /\ runningId' = runningId
        /\ ids' = ids]_vars

(* C12: connect() on a client that already holds a connection throws and leaves the     *)
(* transport, the correlation counter, the correlation table and the refresh timer as   *)
(* they were, so an instance never has two connections or two timers.                   *)
C12_SecondConnectThrows ==
    [][(socket.ref /\ clientLast'.op = "connect") =>
        /\ clientLast'.err = "Socket unexpectedly already connected"
        /\ UNCHANGED <<socket, runningId, ids, refetchInterval, sent, hub>>]_vars

\* connect() was refused on an authenticated client whose counter had moved on
C12_Witness ==
    /\ clientLast.op = "connect"
    /\ clientLast.err = "Socket unexpectedly already connected"
    /\ socket.readyState = "OPEN"
    /\ hub = "authenticated"
    /\ runningId > 1
    /\ refetchInterval.armed

(* C13: after an auth_invalid frame the transport is closed, and from then on no frame  *)
(* is written to it: no second auth message, no registry or subscribe request, no       *)
(* refresh request and no command.                                                      *)
C13_AuthInvalidTerminal ==
    /\ [](hub = "auth_invalid" => socket.readyState = "CLOSED")
    /\ [][hub = "auth_invalid" => (sent' = sent /\ hub' = "auth_invalid")]_vars

\* after auth_invalid the timer fired and a command was called, and the auth message is
\* still the only frame written
C13_Witness ==
    /\ hub = "auth_invalid"
    /\ ticks >= 1
    /\ calls >= 1
    /\ clientLast.op = "tick"
    /\ Len(sent) = 1
    /\ sent[1].type = CLIENT_MESSAGE_TYPES.AUTH

\* the id that follows id in the claim's words: one greater, and 1 after the last id
IdAfter(id) == IF id = MAX_SAFE_INTEGER - 1 THEN 1 ELSE id + 1

(* C14: within one connection each call of send returns the id one greater than the     *)
(* call before it, and 1 after MAX_SAFE_INTEGER - 1; every id lies in                   *)
(* 1..MAX_SAFE_INTEGER-1, never 0; registry requests and commands draw from the one     *)
(* counter.                                                                             *)
C14_IdsConsecutive ==
    /\ [](runningId \in 1..(MAX_SAFE_INTEGER - 1))
    /\ [][LET returned == clientLast'.returned
          IN /\ \A k \in 1..Len(returned) :
                   /\ returned[k] = IF k = 1 THEN runningId ELSE IdAfter(returned[k - 1])
                   /\ returned[k] \in 1..(MAX_SAFE_INTEGER - 1)
             /\ Len(returned) > 0 => runningId' = IdAfter(returned[Len(returned)])
             /\ (Len(returned) = 0 /\ socket.ref) => runningId' = runningId]_vars

\* a refresh whose four ids ran over the upper bound
C14_Witness ==
    /\ clientLast.op = "tick"
    /\ clientLast.returned = <<MAX_SAFE_INTEGER - 2, MAX_SAFE_INTEGER - 1, 1, 2>>
    /\ runningId = 3

\* the four frames written last are the four requests, in order, with the ids of the table
FourRequestsWritten(log, table) ==
    /\ Len(log) >= 4
    /\ LET n == Len(log) - 4
       IN /\ log[n + 1].type = CLIENT_MESSAGE_TYPES.GET_AREA_REGISTRY
          /\ log[n + 2].type = CLIENT_MESSAGE_TYPES.GET_DEVICE_REGISTRY
          /\ log[n + 3].type = CLIENT_MESSAGE_TYPES.GET_ENTITY_REGISTRY
          /\ log[n + 4].type = CLIENT_MESSAGE_TYPES.SUBSCRIBE_ENTITIES
          /\ table = [areas |-> log[n + 1].id, devices |-> log[n + 2].id,
                      entities |-> log[n + 3].id, entityStates |-> log[n + 4].id]
    /\ Cardinality({table.areas, table.devices, table.entities, table.entityStates}) = 4

(* C15: handling auth_ok sends exactly four requests, in the order areas, devices,      *)
(* entities, subscribe-to-entity-states, and the correlation table then holds the four  *)
(* ids returned for them, pairwise distinct; the same holds after every refresh of the  *)
(* timer.                                                                               *)
C15_FourRequestsPerCycle ==
    [][(IsAuthOkStep \/ IsTickStep) =>
        /\ Len(sent') = Len(sent) + 4
        /\ FourRequestsWritten(sent', ids')]_vars

(* C18: close() is idempotent: a second close() in a row leaves the client as the first *)
(* left it, with the timer disarmed and the transport closed, and close() on a client   *)
(* never connected changes nothing and raises no error.                                 *)
C18_CloseIdempotent ==
    [][clientLast'.op = "close" =>
        /\ clientLast'.err = NoError
        /\ socket.ref => (socket'.readyState = "CLOSED" /\ ~refetchInterval'.armed)
        /\ clientLast.op = "close" =>
               UNCHANGED <<socket, runningId, ids, refetchInterval, sent, hub, clientLast>>
        /\ ~socket.ref =>
               UNCHANGED <<socket, runningId, ids, refetchInterval, sent, hub>>]_vars

\* close() on an authenticated client: the transport is closed and the timer cleared
C18_Witness ==
    /\ clientLast.op = "close"
    /\ clientLast.emitted = "closed"
    /\ socket.readyState = "CLOSED"
    /\ refetchInterval.set
    /\ ~refetchInterval.armed
    /\ ids.areas /= 0

---------------------------------------------------------------------------
(* Protocol client wired to the synchronizer: result frames *)

\* a result frame was handled by the client of a DataManager
IsResultFrameStep ==
    /\ frames' = frames + 1
    /\ clientLast'.op = SERVER_MESSAGE_TYPES.RESULT

\* the ids of registry requests written to the transport that a refresh has since
\* replaced in the correlation table
StaleIds ==
    { sent[k].id : k \in { n \in 1..Len(sent) : sent[n].type \in RegistryRequestTypes } }
        \ {ids.areas, ids.devices, ids.entities, ids.entityStates}

(* C16: after a refresh has re-issued the four requests, a result frame carrying an id  *)
(* of an earlier cycle, no longer in the correlation table, emits no typed event and    *)
(* changes neither the buffers nor the Domain Model.                                    *)
C16_StaleResultIgnored ==
    [][(IsResultFrameStep /\ clientLast'.frame.id \in StaleIds) =>
        /\ clientLast'.emitted = "none"
        /\ UNCHANGED <<data, incomingData>>]_vars

\* the answer to a request of the first cycle arrives, without an error field, after a
\* refresh, while the buffers hold part of a cycle
C16_Witness ==
    /\ clientLast.op = SERVER_MESSAGE_TYPES.RESULT
    /\ clientLast.frame.id \in StaleIds
    /\ ~clientLast.frame.hasError
    /\ clientLast.emitted = "none"
    /\ ticks >= 1
    /\ ~NoneHeld(incomingData)

(* C17: a result frame that carries an error field emits no typed event and changes no  *)
(* client or synchronizer state, even when its id is the current areas, devices or      *)
(* entities id of the correlation table; the transport stays open and the session       *)
(* authenticated, so later frames are handled.                                          *)
C17_ErrorResultDropped ==
    [][(IsResultFrameStep /\ clientLast'.frame.hasError) =>
        /\ clientLast'.emitted = "none"
        /\ clientLast'.err = NoError
        /\ UNCHANGED <<data, incomingData>>
        /\ UNCHANGED <<socket, runningId, ids, refetchInterval, sent, hub>>
        /\ socket'.readyState = "OPEN"
        /\ hub' = "authenticated"]_vars

\* an error result whose id is the current areas id was dropped
C17_Witness ==
    /\ clientLast.op = SERVER_MESSAGE_TYPES.RESULT
    /\ clientLast.frame.hasError
    /\ clientLast.frame.id = ids.areas
    /\ clientLast.emitted = "none"
    /\ frames >= 1

---------------------------------------------------------------------------
(* Command dispatcher: area commands *)

\* one command of `service`, in the order of the area's lights, per light cached as
\* `state`
OnePerLightIn(lights, state, service) ==
    LET chosen == SelectSeq(lights, LAMBDA light : light.state = state)
    IN [k \in 1..Len(chosen) |-> Command(service, chosen[k].entityId, UndefinedV)]

\* the call_service frames of the commands `issued`, with consecutive ids from `first`
FramesOf(issued, first) ==
    [k \in 1..Len(issued) |->
        [type |-> CLIENT_MESSAGE_TYPES.CALL_SERVICE, id |-> first + k - 1,
         payload |-> ServiceCall(issued[k].service, issued[k].entityId,
                                 issued[k].brightness)]]

\* an area command ran to its end
IsAreaCommandStep(op) ==
    /\ IsCommandStep
    /\ last'.op = op
    /\ last'.err = NoError

\* what an area command that ran to its end has issued, and what an open transport has
\* then been handed
AreaCommandIssues(state, service) ==
    LET lights == getLights(data.areas, last'.areaId).lights
    IN /\ last'.issued = OnePerLightIn(lights, state, service)
       /\ socket.readyState = "OPEN" =>
              sent' = sent \o FramesOf(last'.issued, runningId)

(* C19: a turn-on-area call issues exactly one turn_on command, carrying the light's    *)
(* entityId, for each light of the area cached as "off" and none for a light cached as  *)
(* "on"; a turn-off-area call issues exactly one turn_off per light cached as "on" and  *)
(* none for a light cached as "off".                                                    *)
C19_OneCommandPerMismatch ==
    [][/\ IsAreaCommandStep("turnOnAllLights") => AreaCommandIssues("off", "turn_on")
       /\ IsAreaCommandStep("turnOffAllLights") => AreaCommandIssues("on", "turn_off")]_vars

\* turn-on-area on the office with the desk light off and the lamp on: one turn_on, for
\* the desk light, written to the open transport
C19_Witness ==
    /\ last.op = "turnOnAllLights"
    /\ last.err = NoError
    /\ socket.readyState = "OPEN"
    /\ Len(getLights(data.areas, last.areaId).lights) = 2
    /\ \E k \in 1..2 : getLights(data.areas, last.areaId).lights[k].state = "on"
    /\ last.issued = <<Command("turn_on", LightDesk, UndefinedV)>>
    /\ sent[Len(sent)].payload = ServiceCall("turn_on", LightDesk, UndefinedV)

\* the lights of the area of the last command that are cached as "unavailable"
UnavailableLights(areas, areaId) ==
    { getLights(areas, areaId).lights[k].entityId :
        k \in { n \in 1..Len(getLights(areas, areaId).lights) :
                  getLights(areas, areaId).lights[n].state = "unavailable" } }

CommandedLights(issued) == { issued[k].entityId : k \in 1..Len(issued) }

(* C20 as stated: for a light cached as "unavailable", a turn-on-area request issues a  *)
(* turn_on command for it, and a turn-off-area request issues no command for it.        *)
C20_UnavailableTurnedOn ==
    [][/\ IsAreaCommandStep("turnOnAllLights") =>
              UnavailableLights(data.areas, last'.areaId) \subseteq
                  CommandedLights(last'.issued)
       /\ IsAreaCommandStep("turnOffAllLights") =>
              UnavailableLights(data.areas, last'.areaId) \cap
                  CommandedLights(last'.issued) = {}]_vars

(* C20: for a light cached as "unavailable", neither a turn-on-area request nor a       *)
(* turn-off-area request issues a command: it is cached neither as "off" nor as "on".   *)
C20_UnavailableNeverCommanded ==
    [][(IsAreaCommandStep("turnOnAllLights") \/ IsAreaCommandStep("turnOffAllLights")) =>
          UnavailableLights(data.areas, last'.areaId) \cap
              CommandedLights(last'.issued) = {}]_vars

\* turn-on-area on the office with the desk light unavailable and the lamp off: the one
\* command goes to the lamp
C20_Witness ==
    /\ last.op = "turnOnAllLights"
    /\ last.err = NoError
    /\ UnavailableLights(data.areas, last.areaId) = {LightDesk}
    /\ last.issued = <<Command("turn_on", LightLamp, UndefinedV)>>

---------------------------------------------------------------------------
(* Conversion helpers *)

Distance(a, b) == IF a >= b THEN a - b ELSE b - a

(* C25: for every integer percentage p in 0..100, getBrightnessValue(p) lies in 0..255  *)
(* and getBrightnessPercentage(getBrightnessValue(p)) differs from p by at most 1.      *)
C25_BrightnessRoundTrip ==
    last.op = "getBrightnessValue" =>
        /\ last.brightness \in 0..maxBrightness
        /\ last.readBack.t = "number"
        /\ Distance(last.readBack.n, last.brightnessPercentage) <= 1

\* the half-way case 50 %: 127.5 rounds up to 128, which reads back as 50
C25_Witness ==
    /\ last.op = "getBrightnessValue"
    /\ last.brightnessPercentage = 50
    /\ last.brightness = 128
    /\ last.readBack = Num(50)

(* C26: calcTemperatureValue returns its input unchanged when source and target unit    *)
(* are equal; an integer Celsius value converted to Fahrenheit and back is the original *)
(* value within a tolerance of 1; the "unavailable" sentinel is returned as is for      *)
(* every pair of units.                                                                 *)
C26_TemperatureConversion ==
    last.op = "calcTemperatureValue" =>
        /\ last.unitOfMeasurement = last.targetUnitOfMeasurement =>
               last.converted = last.value
        /\ last.value = UnavailableV => last.converted = UnavailableV
        /\ (/\ last.value.t = "number"
            /\ last.unitOfMeasurement = TEMPERATURE_UNIT_OF_MEASUREMENTS.celsius
            /\ last.targetUnitOfMeasurement = TEMPERATURE_UNIT_OF_MEASUREMENTS.fahrenheit)
           => /\ last.convertedBack.t = "number"
              /\ Distance(last.convertedBack.n, last.value.n) <= 1

\* 20 C is 68 F, and 68 F is 20 C again
C26_Witness ==
    /\ last.op = "calcTemperatureValue"
    /\ last.value = Num(20)
    /\ last.unitOfMeasurement = TEMPERATURE_UNIT_OF_MEASUREMENTS.celsius
    /\ last.targetUnitOfMeasurement = TEMPERATURE_UNIT_OF_MEASUREMENTS.fahrenheit
    /\ last.converted = Num(68)
    /\ last.convertedBack = Num(20)

---------------------------------------------------------------------------
(* Command dispatcher: dimming, and what commands leave alone *)

\* the command dimLight issues for a light: Math.round(p / 100 * 255), halves up
DimCommand(entityId, p) ==
    LET raw == (2 * p * maxBrightness + fullPercentage) \div (2 * fullPercentage)
    IN IF raw = 0 THEN Command("turn_off", entityId, UndefinedV)
       ELSE Command("turn_on", entityId, Num(raw))

(* C21: a dim-area call issues exactly one command for every light of the area whatever *)
(* its cached state: turn_off when the percentage scales to the raw value 0, otherwise  *)
(* turn_on carrying the scaled 0-255 brightness; a turn_on with brightness 0 is never   *)
(* issued.                                                                              *)
C21_DimIssuesOnePerLight ==
    [][/\ IsAreaCommandStep("dimAllLights") =>
            LET lights == getLights(data.areas, last'.areaId).lights
            IN /\ last'.issued =
                      [k \in 1..Len(lights) |->
                          DimCommand(lights[k].entityId, last'.brightnessPercentage.n)]
               /\ socket.readyState = "OPEN" =>
                      sent' = sent \o FramesOf(last'.issued, runningId)
       /\ IsCommandStep =>
            \A k \in 1..Len(last'.issued) :
                last'.issued[k].brightness /= Num(0)]_vars

\* dim-area at 0 % on the office with the desk light unavailable and the lamp off: a
\* turn_off for each of the two, written to the open transport
C21_Witness ==
    /\ last.op = "dimAllLights"
    /\ last.err = NoError
    /\ last.brightnessPercentage = Num(0)
    /\ socket.readyState = "OPEN"
    /\ UnavailableLights(data.areas, last.areaId) = {LightDesk}
    /\ last.issued = <<Command("turn_off", LightDesk, UndefinedV),
                       Command("turn_off", LightLamp, UndefinedV)>>
    /\ sent[Len(sent)].payload = ServiceCall("turn_off", LightLamp, UndefinedV)

\* the same command, with the same arguments, as the one before it, no event of the hub
\* handled in between, both run to their end
IsRepeatedCommandStep ==
    /\ IsCommandStep
    /\ last'.err = NoError
    /\ last.err = NoError
    /\ last.op = last'.op
    /\ last.areaId = last'.areaId
    /\ last.entityId = last'.entityId
    /\ last.brightnessPercentage = last'.brightnessPercentage

(* C22: command-issuing calls (turn on/off/dim, per light or per area) leave the Domain *)
(* Model and the four buffers unchanged; the model changes only in a step that handles  *)
(* an inbound event; so a command repeated with no event handled in between issues the  *)
(* same commands both times.                                                            *)
C22_CommandsLeaveModel ==
    [][/\ IsCommandStep => UNCHANGED <<data, incomingData>>
       /\ data' /= data => frames' = frames + 1
       /\ IsRepeatedCommandStep => last'.issued = last.issued]_vars

\* turn-on-area issued its turn_on for the desk light a second time: the model still
\* shows the light off
C22_Witness ==
    /\ calls = 2
    /\ last.op = "turnOnAllLights"
    /\ last.err = NoError
    /\ last.issued = <<Command("turn_on", LightDesk, UndefinedV)>>
    /\ Len(sent) >= 2
    /\ sent[Len(sent)].payload = ServiceCall("turn_on", LightDesk, UndefinedV)
    /\ sent[Len(sent) - 1].payload = ServiceCall("turn_on", LightDesk, UndefinedV)

AreaCommands == {"turnOnAllLights", "turnOffAllLights", "dimAllLights"}

\* the area ids asked for: those of the dashboard and of the commands
QueriedAreas == { dashboardConfigs[j].areaId : j \in 1..Len(dashboardConfigs) } \cup CommandAreas

(* C23: getLights, getAverageBrightness, the sensor reading accessors,                  *)
(* getCarbonDioxideDangerLevel and the area commands all fail with an error when the    *)
(* area id is not in the Domain Model, before the first rebuild included; on that       *)
(* failure no protocol command is sent and no state changes.                            *)
C23_UnknownAreaFails ==
    /\ [](\A areaId \in QueriedAreas :
             AreaIndex(data.areas, areaId) = 0 =>
                 /\ getLights(data.areas, areaId).err = "Area not found"
                 /\ getAverageBrightness(data.areas, areaId).err = "Area not found"
                 /\ getHumidityInsideReading(data.areas, areaId).err = "Area not found"
                 /\ getTemperatureInsideReading(data.areas, areaId).err = "Area not found"
                 /\ getCarbonDioxideInsideReading(data.areas, areaId).err = "Area not found"
                 /\ getCarbonDioxideDangerLevel(data.areas, areaId).err = "Area not found")
    /\ [][(/\ IsCommandStep
           /\ last'.op \in AreaCommands
           /\ AreaIndex(data.areas, last'.areaId) = 0)
          => /\ last'.err = "Area not found"
             /\ last'.issued = <<>>
             /\ UNCHANGED <<data, incomingData, socket, runningId, ids, refetchInterval,
                            sent, hub>>]_vars

\* dim-area on an area the hub does not know, on a live session with a model built
C23_Witness ==
    /\ last.op = "dimAllLights"
    /\ last.areaId = "garage"
    /\ last.err = "Area not found"
    /\ AreaIndex(data.areas, "office") /= 0
    /\ socket.readyState = "OPEN"
    /\ hub = "authenticated"

---------------------------------------------------------------------------
(* Derived reads and the values the synchronizer stores *)

\* the classification of a carbon dioxide sensor record of the model
Classified(sensor) ==
    IF sensor = NullV THEN "unknown"
    ELSE IF sensor.state = UnavailableV THEN "unknown"
    ELSE IF sensor.state.n <= 1000 THEN "safe"
    ELSE "danger"

(* C24: getCarbonDioxideDangerLevel classifies the area's current reading against the   *)
(* fixed threshold 1000: at most 1000 ppm, exactly 1000 included, is "safe", 1001 ppm   *)
(* or more is "danger", and an area whose sensor is unavailable or was never configured *)
(* is "unknown".                                                                        *)
C24_DangerLevel ==
    \A i \in 1..Len(data.areas) :
        /\ getCarbonDioxideDangerLevel(data.areas, data.areas[i].id).err = NoError
        /\ getCarbonDioxideDangerLevel(data.areas, data.areas[i].id).level =
               Classified(data.areas[AreaIndex(data.areas, data.areas[i].id)]
                              .carbonDioxideSensor)

\* the office at exactly 1000 ppm is safe, the kitchen without a sensor is unknown
C24_Witness ==
    /\ AreaIndex(data.areas, "office") /= 0
    /\ AreaIndex(data.areas, "kitchen") /= 0
    /\ data.areas[AreaIndex(data.areas, "office")].carbonDioxideSensor /= NullV
    /\ data.areas[AreaIndex(data.areas, "office")].carbonDioxideSensor.state = Num(1000)
    /\ getCarbonDioxideDangerLevel(data.areas, "office").level = "safe"
    /\ getCarbonDioxideDangerLevel(data.areas, "kitchen").level = "unknown"

\* the entity ids a change event names
NamedIn(changes) == { changes[i].entity_id : i \in 1..Len(changes) }

\* the buffered state of an entity id, a missing entry having no field
BufferedState(entityStates, entityId) ==
    IF StateIndex(entityStates, entityId) = 0 THEN EntityState(Undefined, NoAttrs)
    ELSE entityStates[StateIndex(entityStates, entityId)].st

(* C28: while a states buffer is held, a change event modifies only the buffered        *)
(* entries of the entity ids it names, by a shallow field-wise merge in which top-level *)
(* fields absent from the patch keep their buffered value; the live Domain Model, the   *)
(* other three buffers and the buffered entries of all other entity ids are unchanged.  *)
C28_BufferedMerge ==
    [][(IsChangeStep /\ incomingData.entityStates.held) =>
        LET before == incomingData.entityStates.v
            after == incomingData'.entityStates.v
            changes == last'.changes
        IN /\ data' = data
           /\ incomingData'.areas = incomingData.areas
           /\ incomingData'.devices = incomingData.devices
           /\ incomingData'.entities = incomingData.entities
           /\ incomingData'.entityStates.held
           /\ \A k \in 1..Len(before) :
                  before[k].entity_id \notin NamedIn(changes) =>
                      (k <= Len(after) /\ after[k] = before[k])
           /\ { after[k].entity_id : k \in 1..Len(after) } =
                  { before[k].entity_id : k \in 1..Len(before) } \cup NamedIn(changes)
           /\ \A i \in 1..Len(changes) :
                  LET old == BufferedState(before, changes[i].entity_id)
                      new == BufferedState(after, changes[i].entity_id)
                      patch == changes[i].st
                  IN /\ new.s = IF patch.s /= Undefined THEN patch.s ELSE old.s
                     /\ new.a = IF patch.a.present THEN patch.a ELSE old.a]_vars

\* a patch with attributes only for the lamp and a state only for the desk light, merged
\* into the first snapshot: the lamp keeps its state "on", the desk light its attributes,
\* and the carbon dioxide entry is as it was
C28_Witness ==
    /\ last.op = "entity_state_change"
    /\ incomingData.entityStates.held
    /\ NamedIn(last.changes) = {LightLamp, LightDesk}
    /\ BufferedState(incomingData.entityStates.v, LightLamp) =
           EntityState("on", Attrs(Num(128), NullV, Undefined))
    /\ BufferedState(incomingData.entityStates.v, LightDesk) =
           EntityState("on", Attrs(NullV, NullV, Undefined))
    /\ BufferedState(incomingData.entityStates.v, OfficeCo2) =
           EntityState("1000", Attrs(UndefinedV, UndefinedV, "ppm"))

LightStates == {"on", "off", "unavailable"}

\* the normalisation of a raw state value; Undefined stands for a missing value
Normalised(raw) == IF raw \in {"on", "off"} THEN raw ELSE "unavailable"

\* a rebuild ran to its end in this step
IsRebuildStep == IsRegistryStep /\ last'.rebuilt /\ last'.err = NoError

\* a change event was applied to the live model in this step
IsLivePatchStep == IsChangeStep /\ ~incomingData.entityStates.held /\ last'.err = NoError

(* C29: the state of every Light in the model is always one of on, off, unavailable;    *)
(* after a rebuild, and after a steady-state patch touching a light, the light's state  *)
(* is the normalisation of the raw state value supplied for it: "on" gives on, "off"    *)
(* gives off, any other value, a missing one included, gives unavailable.               *)
C29_LightStateNormalised ==
    /\ [](\A i \in 1..Len(data.areas) : \A k \in 1..Len(data.areas[i].lights) :
             data.areas[i].lights[k].state \in LightStates)
    /\ [][/\ IsRebuildStep =>
               \A k \in 1..Len(last'.quartet.entityStates.v) :
                   LET entry == last'.quartet.entityStates.v[k]
                   IN IsLightEntityId(entry.entity_id) =>
                          \E o \in Occurrences(data'.areas, entry.entity_id) :
                              data'.areas[o[1]].lights[o[2]].state = Normalised(entry.st.s)
          /\ IsLivePatchStep =>
               \A i \in LightEntries(last'.changes) :
                   last'.changes[i].entity_id \in LightIdsOf(data.areas) =>
                       FirstLight(data'.areas, last'.changes[i].entity_id).state =
                           Normalised(last'.changes[i].st.s)]_vars

\* in the steady state a patch that carries attributes only reached the lamp: the lamp
\* is unavailable, at 50 %
C29_Witness ==
    /\ last.op = "entity_state_change"
    /\ last.err = NoError
    /\ rebuildsDone >= 1
    /\ ~incomingData.entityStates.held
    /\ \E i \in 1..Len(last.changes) :
           last.changes[i] = Entry(LightLamp, EntityState(Undefined,
                                                          Attrs(Num(128), NullV, Undefined)))
    /\ LightLamp \in LightIdsOf(data.areas)
    /\ FirstLight(data.areas, LightLamp).state = "unavailable"
    /\ FirstLight(data.areas, LightLamp).brightnessPercentage = Num(50)

\* the unit the dashboard configures for an area
TargetUnit(areaId) ==
    LET IsDashboard(d) == d.areaId = areaId
    IN dashboardConfigs[FirstIndex(dashboardConfigs, IsDashboard)].temperatureUnitOfMeasurement

(* C30: the temperature sensor of an area is stored in the area's statically configured *)
(* target unit: its unitOfMeasurement names that unit, also when the hub reported the   *)
(* reading in the other unit.                                                           *)
C30_TemperatureInTargetUnit ==
    \A i \in 1..Len(data.areas) :
        data.areas[i].temperatureSensor /= NullV =>
            data.areas[i].temperatureSensor.unitOfMeasurement = TargetUnit(data.areas[i].id)

---------------------------------------------------------------------------
(* The refresh cycle on a hub that answers *)

\* the refresh timer has just re-issued the four requests on a live connection
Refreshed == clientLast.op = "tick" /\ clientLast.err = NoError /\ ConnectionLive

\* the last typed event handled ended a rebuild that ran to its end
RebuildCompleted == last.op \in Kinds /\ last.rebuilt /\ last.err = NoError

(* C27: when the refresh timer keeps firing while the connection is live and the hub    *)
(* answers every request with consistent snapshots, every refresh is eventually         *)
(* followed by a completed rebuild, unless the connection is lost; after a completed    *)
(* rebuild each light of the states snapshot has in the model the state derived from    *)
(* that snapshot, so that a missed change event is eventually corrected.                *)
C27_RefreshCorrects ==
    /\ [](RebuildCompleted =>
             \A k \in 1..Len(last.quartet.entityStates.v) :
                 LET entry == last.quartet.entityStates.v[k]
                 IN IsLightEntityId(entry.entity_id) =>
                        \E o \in Occurrences(data.areas, entry.entity_id) :
                            data.areas[o[1]].lights[o[2]].state = Normalised(entry.st.s))
    /\ \A n \in 0..MaxRebuilds :
           (Refreshed /\ rebuildsDone = n) ~> (rebuildsDone > n \/ ~ConnectionLive)

\* the desk light was off in the model when the refresh fired; the rebuild that followed
\* the refresh took it to unavailable, as the snapshot of the second cycle says
C27_Witness ==
    /\ ticks = 1
    /\ ConnectionLive
    /\ RebuildCompleted
    /\ rebuildsDone = 2
    /\ frames = Len(DataRequests)
    /\ LightDesk \in LightIdsOf(data.areas)
    /\ FirstLight(data.areas, LightDesk).state = "unavailable"


---------------------------------------------------------------------------
(* Sensor patches outside a rebuild *)

\* the sensor entity ids the dashboards configure
ConfiguredSensorIds ==
    UNION { {dashboardConfigs[j].temperatureSensorEntityId,
             dashboardConfigs[j].humiditySensorEntityId,
             dashboardConfigs[j].carbonDioxideSensorEntityId} :
            j \in 1..Len(dashboardConfigs) } \ {NoEntity}

(* C31: a change event naming a configured sensor entity id that arrives before the     *)
(* first rebuild, while no states buffer is held, is dropped silently: it raises no      *)
(* error and changes neither the Domain Model nor the buffers.                           *)
C31_EarlySensorPatchDropped ==
    [][(/\ IsChangeStep
        /\ rebuildRuns = 0
        /\ ~incomingData.entityStates.held
        /\ NamedIn(last'.changes) \cap ConfiguredSensorIds /= {}) =>
            /\ last'.err = NoError
            /\ data' = data
            /\ incomingData' = incomingData]_vars


\* every dashboard that configures the sensor entity id has its area in the model, and
\* the area has no sensor record of the kind the dashboard configures the id for
SensorRecordMissing(areas, entityId) ==
    \A j \in 1..Len(dashboardConfigs) :
        LET dashboard == dashboardConfigs[j]
            ai == AreaIndex(areas, dashboard.areaId)
        IN /\ entityId = dashboard.carbonDioxideSensorEntityId =>
                  ai /= 0 /\ areas[ai].carbonDioxideSensor = NullV
           /\ entityId = dashboard.humiditySensorEntityId =>
                  ai /= 0 /\ areas[ai].humiditySensor = NullV
           /\ entityId = dashboard.temperatureSensorEntityId =>
                  ai /= 0 /\ areas[ai].temperatureSensor = NullV

\* everything of an area but its lights
WithoutLights(area) == [area EXCEPT !.lights = <<>>]

(* C32: in steady state a change event naming a configured sensor entity id whose area  *)
(* is in the model without a sensor record of that kind raises no error and changes no  *)
(* area or sensor field, and the light patches of the same event are still applied.     *)
C32_MissingSensorNonFatal ==
    [][(/\ IsChangeStep
        /\ rebuildsDone >= 1
        /\ ~incomingData.entityStates.held
        /\ NamedIn(last'.changes) \cap ConfiguredSensorIds /= {}
        /\ \A entityId \in NamedIn(last'.changes) \cap ConfiguredSensorIds :
               SensorRecordMissing(data.areas, entityId)) =>
            /\ last'.err = NoError
            /\ Len(data'.areas) = Len(data.areas)
            /\ \A i \in 1..Len(data.areas) :
                   WithoutLights(data'.areas[i]) = WithoutLights(data.areas[i])
            /\ \A i \in LightEntries(last'.changes) : AppliedToModel(i)]_vars

\* the office has no CO2 record; the event that named the CO2 sensor first turned the
\* desk light off and left its brightness at 50 %
C32_Witness ==
    /\ last.op = "entity_state_change"
    /\ last.err = NoError
    /\ rebuildsDone >= 1
    /\ ~incomingData.entityStates.held
    /\ last.changes = <<Entry(OfficeCo2, EntityState("1001", NoAttrs)),
                        Entry(LightDesk, EntityState("off", NoAttrs))>>
    /\ AreaIndex(data.areas, "office") /= 0
    /\ data.areas[AreaIndex(data.areas, "office")].carbonDioxideSensor = NullV
    /\ LightDesk \in LightIdsOf(data.areas)
    /\ FirstLight(data.areas, LightDesk).state = "off"
    /\ FirstLight(data.areas, LightDesk).brightnessPercentage = Num(50)


---------------------------------------------------------------------------
(* The rebuild and the previous model *)

\* a rebuild ran in this step, to its end or not
IsRebuildRun == IsRegistryStep /\ last'.rebuilt

\* the entity ids of a states snapshot
SnapshotIds(entityStates) == { entityStates[k].entity_id : k \in 1..Len(entityStates) }

\* a sensor record that the states snapshot does not name is the same before and after
CarriedOver(before, after, entityStates) ==
    (before /= NullV /\ before.entityId \notin SnapshotIds(entityStates)) => after = before

(* C33: across a rebuild, for every area id that is both in the previous model and in   *)
(* the new areas snapshot, a sensor record whose entity id does not occur in the new     *)
(* states snapshot is carried over unchanged, while the area's id, name and floorId take *)
(* the values of the new snapshot.                                                       *)
C33_SensorsCarriedOver ==
    [][IsRebuildRun =>
        /\ Len(data'.areas) = Len(last'.quartet.areas.v)
        /\ \A k \in 1..Len(last'.quartet.areas.v) :
               LET area == last'.quartet.areas.v[k]
                   si == AreaIndex(data.areas, area.area_id)
                   entityStates == last'.quartet.entityStates.v
               IN si /= 0 =>
                    /\ data'.areas[k].id = area.area_id
                    /\ data'.areas[k].name = area.name
                    /\ data'.areas[k].floorId = area.floor_id
                    /\ CarriedOver(data.areas[si].carbonDioxideSensor,
                                   data'.areas[k].carbonDioxideSensor, entityStates)
                    /\ CarriedOver(data.areas[si].humiditySensor,
                                   data'.areas[k].humiditySensor, entityStates)
                    /\ CarriedOver(data.areas[si].temperatureSensor,
                                   data'.areas[k].temperatureSensor, entityStates)]_vars

\* the second rebuild renamed the office to Study, upstairs, from a states snapshot
\* without the CO2 sensor: the area holds the CO2 record of the first rebuild, which
\* still names the office
C33_Witness ==
    /\ last.rebuilt
    /\ last.err = NoError
    /\ rebuildsDone = 2
    /\ OfficeCo2 \notin SnapshotIds(last.quartet.entityStates.v)
    /\ AreaIndex(data.areas, "office") /= 0
    /\ LET office == data.areas[AreaIndex(data.areas, "office")]
       IN /\ office.name = "Study"
          /\ office.floorId = "upstairs"
          /\ office.carbonDioxideSensor /= NullV
          /\ office.carbonDioxideSensor.entityId = OfficeCo2
          /\ office.carbonDioxideSensor.areaName = "Office"
          /\ office.carbonDioxideSensor.state = Num(1000)


\* the area ids of an areas snapshot, in snapshot order
SnapshotAreaIds(areas) == [k \in 1..Len(areas) |-> areas[k].area_id]

\* a sensor record is absent or was derived from the states snapshot
FromSnapshot(sensor, entityStates) ==
    sensor = NullV \/ sensor.entityId \in SnapshotIds(entityStates)

(* C34: after a successful rebuild the model's area list holds exactly the area ids of  *)
(* the consumed areas snapshot, in snapshot order and one Area per id: an area absent    *)
(* from the snapshot is gone with its lights and sensors, and an area new in the         *)
(* snapshot holds no light and no sensor but those the rebuild derived for it.           *)
C34_AreasFollowSnapshot ==
    [][IsRebuildStep =>
        /\ [k \in 1..Len(data'.areas) |-> data'.areas[k].id] =
               SnapshotAreaIds(last'.quartet.areas.v)
        /\ \A k \in 1..Len(data'.areas) :
               AreaIndex(data.areas, data'.areas[k].id) = 0 =>
                   LET area == data'.areas[k]
                       entityStates == last'.quartet.entityStates.v
                   IN /\ \A n \in 1..Len(area.lights) :
                             /\ area.lights[n].entityId \in SnapshotIds(entityStates)
                             /\ area.lights[n].areaId = area.id
                      /\ FromSnapshot(area.carbonDioxideSensor, entityStates)
                      /\ FromSnapshot(area.humiditySensor, entityStates)
                      /\ FromSnapshot(area.temperatureSensor, entityStates)]_vars

\* the first rebuild consumed the snapshot with the garage and the office named Study,
\* as the CO2 record still tells; the second consumed the snapshot without the garage,
\* and the model holds its four areas in its order
C34_Witness ==
    /\ last.rebuilt
    /\ last.err = NoError
    /\ rebuildsDone = 2
    /\ [k \in 1..Len(data.areas) |-> data.areas[k].id] =
           <<"living_room", "kitchen", "bedroom", "office">>
    /\ data.areas[4].name = "Office"
    /\ data.areas[4].carbonDioxideSensor /= NullV
    /\ data.areas[4].carbonDioxideSensor.areaName = "Study"


(* C35: after a successful rebuild the lights in the model are exactly the light-domain *)
(* entity ids of the consumed states snapshot: a light of the previous model that the   *)
(* new snapshot lacks is in no area's lights any more.                                   *)
C35_LightsFollowSnapshot ==
    [][IsRebuildStep =>
        LightIdsOf(data'.areas) =
            { entityId \in SnapshotIds(last'.quartet.entityStates.v) :
                  IsLightEntityId(entityId) }]_vars


---------------------------------------------------------------------------
(* Refresh cycles and the quartet a rebuild consumes *)

\* the four payloads answer the four requests of one sendDataRequests(), which allocates
\* four consecutive ids
SameCycle(quartet) ==
    /\ quartet.devices.id = quartet.areas.id + 1
    /\ quartet.entities.id = quartet.areas.id + 2
    /\ quartet.entityStates.id = quartet.areas.id + 3

(* C36: every rebuild consumes four snapshots that answer the same request cycle: what  *)
(* an earlier cycle had buffered when the refresh timer re-issued the four requests,     *)
(* the states snapshot of the earlier subscription included, is never combined with      *)
(* snapshots of the new cycle in one rebuild.                                            *)
C36_RebuildFromOneCycle ==
    [][IsRebuildRun => SameCycle(last'.quartet)]_vars


---------------------------------------------------------------------------
(* Light patches in the steady state *)

(* C37: a steady-state patch applied to a light changes only the fields the patch       *)
(* carries: without an attributes payload brightnessPercentage and rgbColor stay, with   *)
(* attributes that name the brightness only rgbColor stays; no field of another light or *)
(* of an area changes.                                                                   *)
C37_PatchChangesCarriedFieldsOnly ==
    [][(IsLivePatchStep /\ rebuildsDone >= 1) =>
        /\ Len(data'.areas) = Len(data.areas)
        /\ \A i \in 1..Len(data.areas) :
               /\ WithoutLights(data'.areas[i]) = WithoutLights(data.areas[i])
               /\ Len(data'.areas[i].lights) = Len(data.areas[i].lights)
               /\ \A k \in 1..Len(data.areas[i].lights) :
                      data.areas[i].lights[k].entityId \notin NamedIn(last'.changes) =>
                          data'.areas[i].lights[k] = data.areas[i].lights[k]
        /\ \A i \in LightEntries(last'.changes) :
               LET change == last'.changes[i]
               IN change.entity_id \in LightIdsOf(data.areas) =>
                    LET before == FirstLight(data.areas, change.entity_id)
                        after == FirstLight(data'.areas, change.entity_id)
                    IN /\ ~change.st.a.present =>
                            /\ after.brightnessPercentage = before.brightnessPercentage
                            /\ after.rgbColor = before.rgbColor
                       /\ (change.st.a.present /\ change.st.a.rgb_color = UndefinedV) =>
                            after.rgbColor = before.rgbColor]_vars


---------------------------------------------------------------------------
(* Requests and the handshake *)

\* the current transport has not received auth_ok yet
BeforeAuthOk == socket.ref /\ hub \in {"connecting", "auth_required", "auth_sent"}

(* C38: on every connection no registry or subscribe request is sent before auth_ok has *)
(* been received: between connect() and auth_ok the only frame the client sends is the  *)
(* auth message, which consumes no correlation id.                                      *)
C38_NoRequestBeforeAuthOk ==
    BeforeAuthOk =>
        /\ \A k \in 1..Len(sent) :
               /\ sent[k].type \notin RegistryRequestTypes
               /\ sent[k].type = CLIENT_MESSAGE_TYPES.AUTH
               /\ sent[k].id = 0
        /\ runningId = 1


---------------------------------------------------------------------------
(* The light-only DataManager of the external-tool bridge *)

\* an Area of the light-only model: no sensor fields
LightOnlyArea(area) ==
    [id |-> area.id, name |-> area.name, floorId |-> area.floorId, lights |-> area.lights]

\* what the light-only model holds when it has followed the full one so far
LightOnlyAreas(areas) == [i \in 1..Len(areas) |-> LightOnlyArea(areas[i])]

\* updateAreas of the light-only DataManager: { lights: [], ...staleArea, id, name, floorId }
lightOnlyUpdateAreas(staleAreas, areas) ==
    [i \in 1..Len(areas) |->
        LET area == areas[i]
            si == AreaIndex(staleAreas, area.area_id)
        IN [id |-> area.area_id, name |-> area.name, floorId |-> area.floor_id,
            lights |-> IF si = 0 THEN <<>> ELSE staleAreas[si].lights]]

\* syncData of the light-only DataManager: updateAreas, updateLights, then the buffers
\* are cleared; there is no updateSensors
lightOnlySyncData(areas, inc) ==
    IF AllHeld(inc)
    THEN ThenClearBuffers(
             updateLights(lightOnlyUpdateAreas(areas, inc.areas.v),
                          inc.devices.v, inc.entities.v, inc.entityStates.v),
             inc)
    ELSE [areas |-> areas, incomingData |-> inc, err |-> NoError, rebuilt |-> FALSE]

\* the change event of the light-only DataManager while no states buffer is held: only
\* light ids are looked at
RECURSIVE lightOnlyApplyChangesFrom(_, _, _)
lightOnlyApplyChangesFrom(i, areas, changes) ==
    IF i > Len(changes) THEN [areas |-> areas, err |-> NoError]
    ELSE IF IsLightEntityId(changes[i].entity_id)
    THEN lightOnlyApplyChangesFrom(i + 1,
            updateLightState(areas, changes[i].entity_id, changes[i].st).areas, changes)
    ELSE lightOnlyApplyChangesFrom(i + 1, areas, changes)

\* the light-only DataManager, in step with the full one before this step, is in step
\* with it after a rebuild run: same areas and lights, same error, same buffers
RebuildInStep ==
    LET r == lightOnlySyncData(LightOnlyAreas(data.areas), last'.quartet)
    IN /\ LightOnlyAreas(data'.areas) = r.areas
       /\ last'.err = r.err
       /\ incomingData' = r.incomingData

\* the same for a change event applied to the model
ChangeInStep ==
    LET r == lightOnlyApplyChangesFrom(1, LightOnlyAreas(data.areas), last'.changes)
    IN /\ LightOnlyAreas(data'.areas) = r.areas
       /\ last'.err = r.err

(* C39: the light-only DataManager and the full DataManager, run side by side on the    *)
(* same registry events, change events and area commands, have after every step the    *)
(* same areas, the same lights with the same fields and the same errors; the protocol   *)
(* commands of an area command are read off the area's lights, so they are the same     *)
(* whenever the lights are.                                                             *)
C39_LightOnlyInStep ==
    [][/\ (IsRegistryStep /\ last'.rebuilt) => RebuildInStep
       /\ (IsChangeStep /\ ~incomingData.entityStates.held) => ChangeInStep]_vars

=============================================================================
